---- MODULE Spec2Model ----
(***************************************************************************)
(* Voice-first front-end: the login screen (src/src/pages/Login.tsx, with  *)
(* its embedded useVoice hook) and the dashboard                           *)
(* (src/src/pages/Dashboard.tsx, on the shared hook                        *)
(* src/src/hooks/useVoice.ts), together with the two platform services the *)
(* hooks drive: SpeechRecognition (capture) and speechSynthesis (output).  *)
(*                                                                         *)
(* One state of the model is the state of the mounted screen after React   *)
(* has committed a render and run its effects.  Every handler (a platform  *)
(* callback, a timer callback, a click, a key) is one action: the handler's *)
(* code, the re-render it causes and the effects that re-render runs.      *)
(* Handlers are written as operators from a state record to a state record *)
(* so that nested calls (an effect calling handleModeChange calling speak) *)
(* compose as they do in the source.                                       *)
(***************************************************************************)
EXTENDS Integers, Sequences, FiniteSets, TLC

VARIABLES
    screen,          \* "login" | "dashboard" | "left" (navigated away)
    \* ---- hook state (useState / useRef of useVoice)
    isListening,
    isSpeaking,
    transcript,
    lastResult,
    shouldRestart,   \* Login.tsx shouldRestartRef; the shared hook has none
    \* ---- platform services
    rec,             \* SpeechRecognition session: idle|starting|active|stopping|ending
    queue,           \* speechSynthesis utterance queue: Seq of [text, started]
    orphans,         \* cancelled utterances whose error event is still to be dispatched
    \* ---- timers
    welcomeTimer,    \* the welcome setTimeout of either screen
    timer50,         \* Login.tsx:135 restart after output-end
    timer100,        \* Login.tsx:55 restart after capture-end
    e2Timer,         \* Dashboard.tsx:133 auto-enable mic
    e3Timer,         \* Dashboard.tsx:146 re-enable mic after speaking
    logoutTimer,     \* Dashboard.tsx:189/268 navigate('/') pending
    submits,         \* Login.tsx handleSubmit calls in flight: Seq of records
    \* ---- view state
    mode,            \* AuthMode on the login screen, DashboardMode on the dashboard
    username,
    pin,
    error,
    isProcessing,
    hasSpokenWelcome,
    selectedIndex,
    isMuted,
    wasListening,
    \* ---- persistent storage (localStorage)
    storedLoggedIn,
    storedUsername,
    \* ---- history of the turn, kept for the properties (not program state)
    turn,            \* since the last speak(): none|speaking|owed|held|failed
    stopSince        \* stopListening() was called since the last speak() or startListening()

vars == << screen, isListening, isSpeaking, transcript, lastResult, shouldRestart,
           rec, queue, orphans, welcomeTimer, timer50, timer100, e2Timer, e3Timer,
           logoutTimer, submits, mode, username, pin, error, isProcessing,
           hasSpokenWelcome, selectedIndex, isMuted, wasListening,
           storedLoggedIn, storedUsername, turn, stopSince >>

\* The current state as one record; handlers map such a record to the next one.
\* Two more fields observe what a handler does beside the state it leaves: said,
\* the text of its last speak() request ("" if none), and handled, the times the
\* body of the voice command effect ran.  Become keeps the state and drops them.
Cur ==
    [ screen |-> screen, isListening |-> isListening, isSpeaking |-> isSpeaking,
      transcript |-> transcript, lastResult |-> lastResult,
      shouldRestart |-> shouldRestart, rec |-> rec, queue |-> queue,
      orphans |-> orphans, welcomeTimer |-> welcomeTimer, timer50 |-> timer50,
      timer100 |-> timer100, e2Timer |-> e2Timer, e3Timer |-> e3Timer,
      logoutTimer |-> logoutTimer, submits |-> submits, mode |-> mode,
      username |-> username, pin |-> pin, error |-> error,
      isProcessing |-> isProcessing, hasSpokenWelcome |-> hasSpokenWelcome,
      selectedIndex |-> selectedIndex, isMuted |-> isMuted,
      wasListening |-> wasListening, storedLoggedIn |-> storedLoggedIn,
      storedUsername |-> storedUsername, turn |-> turn,
      stopSince |-> stopSince, said |-> "", handled |-> 0 ]

Become(n) ==
    /\ screen' = n.screen
    /\ isListening' = n.isListening
    /\ isSpeaking' = n.isSpeaking
    /\ transcript' = n.transcript
    /\ lastResult' = n.lastResult
    /\ shouldRestart' = n.shouldRestart
    /\ rec' = n.rec
    /\ queue' = n.queue
    /\ orphans' = n.orphans
    /\ welcomeTimer' = n.welcomeTimer
    /\ timer50' = n.timer50
    /\ timer100' = n.timer100
    /\ e2Timer' = n.e2Timer
    /\ e3Timer' = n.e3Timer
    /\ logoutTimer' = n.logoutTimer
    /\ submits' = n.submits
    /\ mode' = n.mode
    /\ username' = n.username
    /\ pin' = n.pin
    /\ error' = n.error
    /\ isProcessing' = n.isProcessing
    /\ hasSpokenWelcome' = n.hasSpokenWelcome
    /\ selectedIndex' = n.selectedIndex
    /\ isMuted' = n.isMuted
    /\ wasListening' = n.wasListening
    /\ storedLoggedIn' = n.storedLoggedIn
    /\ storedUsername' = n.storedUsername
    /\ turn' = n.turn
    /\ stopSince' = n.stopSince

Become0(n) ==
    /\ screen = n.screen
    /\ isListening = n.isListening
    /\ isSpeaking = n.isSpeaking
    /\ transcript = n.transcript
    /\ lastResult = n.lastResult
    /\ shouldRestart = n.shouldRestart
    /\ rec = n.rec
    /\ queue = n.queue
    /\ orphans = n.orphans
    /\ welcomeTimer = n.welcomeTimer
    /\ timer50 = n.timer50
    /\ timer100 = n.timer100
    /\ e2Timer = n.e2Timer
    /\ e3Timer = n.e3Timer
    /\ logoutTimer = n.logoutTimer
    /\ submits = n.submits
    /\ mode = n.mode
    /\ username = n.username
    /\ pin = n.pin
    /\ error = n.error
    /\ isProcessing = n.isProcessing
    /\ hasSpokenWelcome = n.hasSpokenWelcome
    /\ selectedIndex = n.selectedIndex
    /\ isMuted = n.isMuted
    /\ wasListening = n.wasListening
    /\ storedLoggedIn = n.storedLoggedIn
    /\ storedUsername = n.storedUsername
    /\ turn = n.turn
    /\ stopSince = n.stopSince

(***************************************************************************)
(* Bounds of the model.                                                    *)
(***************************************************************************)
MaxOrphans == 1      \* cancelled utterances with an undelivered error event
MaxSubmits == 2      \* handleSubmit calls in flight at once
RenderFuel == 4      \* renders followed within one handler

(***************************************************************************)
(* Strings.  TLC evaluates Len, \o and SubSeq on strings.                  *)
(***************************************************************************)
\* String.prototype.includes
Includes(s, sub) ==
    \E i \in 1..(Len(s) - Len(sub) + 1) : SubSeq(s, i, i + Len(sub) - 1) = sub

CharAt(s, i) == SubSeq(s, i, i)

UpperCase == "ABCDEFGHIJKLMNOPQRSTUVWXYZ"
LowerCase == "abcdefghijklmnopqrstuvwxyz"
Digits == "0123456789"

IsDigit(c) == Includes(Digits, c)
IsLetter(c) == Includes(UpperCase, c) \/ Includes(LowerCase, c)
\* \w of a JavaScript regular expression
IsWordChar(c) == IsLetter(c) \/ IsDigit(c) \/ c = "_"
\* \s, for the characters an utterance or a typed name can hold
IsSpace(c) == c = " "

LowerChar(c) ==
    IF Includes(UpperCase, c)
    THEN CharAt(LowerCase, CHOOSE i \in 1..26 : CharAt(UpperCase, i) = c)
    ELSE c

RECURSIVE ToLowerCase(_)
ToLowerCase(s) ==
    IF s = "" THEN ""
    ELSE LowerChar(CharAt(s, 1)) \o ToLowerCase(SubSeq(s, 2, Len(s)))

RECURSIVE TrimStart(_)
TrimStart(s) ==
    IF s # "" /\ IsSpace(CharAt(s, 1)) THEN TrimStart(SubSeq(s, 2, Len(s))) ELSE s

RECURSIVE TrimEnd(_)
TrimEnd(s) ==
    IF s # "" /\ IsSpace(CharAt(s, Len(s))) THEN TrimEnd(SubSeq(s, 1, Len(s) - 1)) ELSE s

\* String.prototype.trim
Trim(s) == TrimEnd(TrimStart(s))

\* s.replace(/\D/g, '')
RECURSIVE StripNonDigits(_)
StripNonDigits(s) ==
    IF s = "" THEN ""
    ELSE (IF IsDigit(CharAt(s, 1)) THEN CharAt(s, 1) ELSE "")
         \o StripNonDigits(SubSeq(s, 2, Len(s)))

\* s.replace(/[^a-zA-Z0-9\s]/g, '')
RECURSIVE StripPunctuation(_)
StripPunctuation(s) ==
    IF s = "" THEN ""
    ELSE LET c == CharAt(s, 1) IN
         (IF IsLetter(c) \/ IsDigit(c) \/ IsSpace(c) THEN c ELSE "")
         \o StripPunctuation(SubSeq(s, 2, Len(s)))

\* s.split('').join(' ')
RECURSIVE SpacedOut(_)
SpacedOut(s) ==
    IF Len(s) <= 1 THEN s
    ELSE CharAt(s, 1) \o " " \o SpacedOut(SubSeq(s, 2, Len(s)))

\* s.replace(new RegExp(`\\b${word}\\b`, 'gi'), digit): every occurrence of word
\* (any letter case) that has a word boundary on both sides, left to right.
RECURSIVE ReplaceWordFrom(_, _, _, _)
ReplaceWordFrom(s, i, word, digit) ==
    IF i > Len(s) THEN ""
    ELSE LET j == i + Len(word) - 1
             hit == /\ j <= Len(s)
                    /\ ToLowerCase(SubSeq(s, i, j)) = word
                    /\ (i = 1 \/ ~IsWordChar(CharAt(s, i - 1)))
                    /\ (j = Len(s) \/ ~IsWordChar(CharAt(s, j + 1)))
         IN IF hit THEN digit \o ReplaceWordFrom(s, j + 1, word, digit)
            ELSE CharAt(s, i) \o ReplaceWordFrom(s, i + 1, word, digit)

\* the replacement without the word boundaries: every occurrence of word
RECURSIVE ReplaceWord_Anywhere(_, _, _)
ReplaceWord_Anywhere(s, word, digit) ==
    IF s = "" THEN ""
    ELSE IF Len(s) >= Len(word) /\ ToLowerCase(SubSeq(s, 1, Len(word))) = word
    THEN digit \o ReplaceWord_Anywhere(SubSeq(s, Len(word) + 1, Len(s)), word, digit)
    ELSE CharAt(s, 1) \o ReplaceWord_Anywhere(SubSeq(s, 2, Len(s)), word, digit)

ReplaceWord(s, word, digit) == ReplaceWordFrom(s, 1, word, digit)

ToStr(n) == CharAt(Digits, n + 1)

(***************************************************************************)
(* The platform services, as the hooks see them.                           *)
(*                                                                         *)
(* SpeechRecognition: start() on a session that has not ended throws       *)
(* InvalidStateError; stop() lets the session deliver what it heard and    *)
(* end; every error event is followed by an end event.                     *)
(* speechSynthesis: speak() appends to the queue, cancel() empties it; a   *)
(* cancelled utterance gets an error event, never an end event.            *)
(***************************************************************************)
RecStates == {"idle", "starting", "active", "stopping", "ending"}

\* recognition.start() throws
StartThrows(s) == s.rec # "idle"

\* recognition.start(), when it does not throw
RecognitionStart(s) == [s EXCEPT !.rec = "starting"]

\* recognition.stop()
RecognitionStop(s) ==
    IF s.rec \in {"starting", "active"} THEN [s EXCEPT !.rec = "stopping"] ELSE s

\* speechSynthesis.speaking
SynthSpeaking(s) == s.queue # << >> /\ s.queue[1].started

Min(a, b) == IF a < b THEN a ELSE b

\* speechSynthesis.cancel().  Only the shared hook attaches utterance.onerror
\* (useVoice.ts:196); the error event of a cancelled Login utterance has no
\* listener and is not kept.
SynthCancel(s) ==
    [s EXCEPT !.queue = << >>,
              !.orphans = IF s.screen = "dashboard"
                          THEN Min(MaxOrphans, s.orphans + Len(s.queue))
                          ELSE s.orphans]

\* speechSynthesis.speak(new SpeechSynthesisUtterance(text))
SynthSpeak(s, text) ==
    [s EXCEPT !.queue = Append(s.queue, [text |-> text, started |-> FALSE]),
              !.said = text]

(***************************************************************************)
(* The hook embedded in the login screen (Login.tsx:7-169).                *)
(***************************************************************************)
\* Login.tsx:81 startListening
L_startListening(s) ==
    IF ~s.isListening
    THEN LET a == [s EXCEPT !.transcript = "", !.lastResult = "",
                            !.shouldRestart = TRUE]
         IN IF StartThrows(a) THEN a
            ELSE [RecognitionStart(a) EXCEPT !.isListening = TRUE]
    ELSE s

\* Login.tsx:96 stopListening
L_stopListening(s) ==
    LET a == [s EXCEPT !.shouldRestart = FALSE]
    IN IF s.isListening
       THEN [RecognitionStop(a) EXCEPT !.isListening = FALSE]
       ELSE a

\* Login.tsx:109 speak; listening is the isListening of the render whose
\* closure makes the call
L_speak(s, text, listening) ==
    LET a == IF listening
             THEN RecognitionStop([s EXCEPT !.shouldRestart = FALSE])
             ELSE s
    IN SynthSpeak(SynthCancel(a), text)

\* Login.tsx:123 utterance.onstart
L_utteranceOnStart(s) == [s EXCEPT !.isSpeaking = TRUE]

\* a variant of utterance.onend that sets no restart timer
L_utteranceOnEnd_NoTimer(s) == [s EXCEPT !.isSpeaking = FALSE, !.shouldRestart = TRUE]

\* Login.tsx:128 utterance.onend
L_utteranceOnEnd(s) ==
    [s EXCEPT !.isSpeaking = FALSE, !.shouldRestart = TRUE, !.timer50 = TRUE]

\* Login.tsx:135 and Login.tsx:55, the body of both restart timers
L_restart(s) ==
    IF StartThrows(s) THEN s
    ELSE [RecognitionStart(s) EXCEPT !.isListening = TRUE]

\* Login.tsx:49 recognition.onend
L_recognitionOnEnd(s) ==
    LET a == [s EXCEPT !.isListening = FALSE]
    IN IF s.shouldRestart /\ ~SynthSpeaking(s)
       THEN [a EXCEPT !.timer100 = TRUE]
       ELSE a

\* Login.tsx:34 recognition.onresult
L_recognitionOnResult(s, text, final) ==
    IF final THEN [s EXCEPT !.transcript = text, !.lastResult = text]
    ELSE [s EXCEPT !.transcript = text]

\* Login.tsx:45 recognition.onerror: logs only
L_recognitionOnError(s, code) == s

\* Login.tsx:69-78 the cleanup of the hook's effect, with the cleanup of the
\* welcome effect (Login.tsx:441).  The 50 ms and 100 ms timers are not cleared
\* and the synthesis queue is not cancelled.
L_cleanup(s) ==
    [RecognitionStop([s EXCEPT !.shouldRestart = FALSE])
        EXCEPT !.welcomeTimer = FALSE, !.screen = "torn"]

\* A callback that runs once the component is unmounted: React drops its state
\* updates; what it did to the refs, the timers and the platform stays.
Detached(s, n) == [n EXCEPT !.isListening = s.isListening, !.isSpeaking = s.isSpeaking]

\* Login.tsx:153 clearTranscript
L_clearTranscript(s) == [s EXCEPT !.transcript = "", !.lastResult = ""]

(***************************************************************************)
(* The login screen (Login.tsx:413-596).  playTone changes no state and is *)
(* left out.                                                               *)
(***************************************************************************)
AuthModes == {"welcome", "login", "register", "help"}

L_WelcomeText == "Welcome to your AI Teacher and Opportunity Guide. Say Login, Register, or Help."
L_ClearedText == "Form cleared. Say your username."
L_ErrorText == "Error. Provide username and at least 4 digit pin."
L_ErrorMessage == "Please provide username and at least 4-digit pin"
L_ProcessingText == "Processing your request."
L_SuccessText == "Login successful! Welcome to your dashboard."

\* Login.tsx:455 messages
L_messages(newMode) ==
    CASE newMode = "welcome" -> "Welcome screen. Say Login, Register, or Help."
      [] newMode = "login" -> "Login mode. Say your username first, then say your pin numbers."
      [] newMode = "register" -> "Register mode. Say your username, then your pin numbers."
      [] newMode = "help" -> "Help mode. Available commands: Login, Register, Go back. Say your username, then numbers for PIN."

\* Login.tsx:445 handleModeChange
handleModeChange(s, newMode) ==
    LET a == [s EXCEPT !.mode = newMode, !.error = ""]
        b == IF newMode = "welcome" THEN [a EXCEPT !.pin = "", !.username = ""] ELSE a
    IN L_speak(b, L_messages(newMode), s.isListening)

\* Login.tsx:465 handleClearForm
handleClearForm(s) ==
    L_speak([s EXCEPT !.pin = "", !.username = "", !.error = ""],
            L_ClearedText, s.isListening)

\* a variant of the validation that does not look at the pin
SubmitInvalid_NameOnly(name, p) == name = ""

\* Login.tsx:474 the validation of handleSubmit
SubmitInvalid(name, p) == name = "" \/ Len(p) < 4

\* Login.tsx:473-484 handleSubmit up to its await.  The continuation keeps the
\* username, the pin and the speak of the render that made the call.
handleSubmit(s) ==
    IF SubmitInvalid(s.username, s.pin)
    THEN L_speak([s EXCEPT !.error = L_ErrorMessage], L_ErrorText, s.isListening)
    ELSE LET a == [s EXCEPT !.isProcessing = TRUE,
                            !.submits = Append(s.submits,
                                [stage |-> "await", username |-> s.username,
                                 pin |-> s.pin, listening |-> s.isListening])]
         IN L_speak(a, L_ProcessingText, s.isListening)

\* Login.tsx:486-498 handleSubmit after its await (the 1500 ms timer), for the
\* i-th call in flight
handleSubmitResume(s, i) ==
    LET c == s.submits[i]
        a == L_speak(s, L_SuccessText, c.listening)
    IN [a EXCEPT !.storedLoggedIn = TRUE, !.storedUsername = c.username,
                 !.submits[i].stage = "navigate"]

\* Login.tsx:552 hasNumbers
L_hasNumbers(command) ==
    \/ \E i \in 1..Len(command) : IsDigit(CharAt(command, i))
    \/ \E w \in {"zero", "one", "two", "three", "four", "five", "six", "seven",
                 "eight", "nine"} : Includes(ToLowerCase(command), w)

\* Login.tsx:567 numberWords, in the order of Object.entries
numberWords ==
    << <<"zero", "0">>, <<"one", "1">>, <<"two", "2">>, <<"three", "3">>,
       <<"four", "4">>, <<"five", "5">>, <<"six", "6">>, <<"seven", "7">>,
       <<"eight", "8">>, <<"nine", "9">>, <<"oh", "0">>, <<"to", "2">>,
       <<"too", "2">>, <<"for", "4">>, <<"fore", "4">>, <<"ate", "8">> >>

\* Login.tsx:573-576 processedCommand after the first k replacements
RECURSIVE ReplaceNumberWords(_, _)
ReplaceNumberWords(command, k) ==
    IF k = 0 THEN command
    ELSE ReplaceWord(ReplaceNumberWords(command, k - 1),
                     numberWords[k][1], numberWords[k][2])

\* Login.tsx:578 numbers
SpokenDigits(command) ==
    StripNonDigits(ReplaceNumberWords(command, Len(numberWords)))

L_UsernameText(name) ==
    "Username: " \o name \o ". Now say PIN numbers, like one two three four."
L_AddedText(numbers, finalPin) ==
    "Added " \o SpacedOut(numbers) \o ". PIN now has " \o ToStr(Len(finalPin)) \o " digits."
L_RemindText(name) ==
    "Username is " \o name \o ". Say numbers for PIN, or say clear to start over."

IncludesAny(command, subs) == \E w \in subs : Includes(command, w)

\* Login.tsx:505 command
L_command(text) == Trim(ToLowerCase(text))

\* the keyword tests with submit and clear ahead of the navigation keywords
L_keyword_SubmitFirst(command) ==
    IF IncludesAny(command, {"submit", "confirm", "done", "finish"}) THEN "submit"
    ELSE IF IncludesAny(command, {"clear", "clear form", "start over", "reset"})
    THEN "clear"
    ELSE IF IncludesAny(command, {"login", "log in", "sign in"}) THEN "login"
    ELSE IF IncludesAny(command, {"register", "sign up", "signup", "create account"})
    THEN "register"
    ELSE IF Includes(command, "help") THEN "help"
    ELSE IF IncludesAny(command, {"go back", "back", "cancel", "home"}) THEN "welcome"
    ELSE "none"

\* Login.tsx:511-548 the keyword tests of the effect, in their order.  The tests
\* for clear and submit are made in login and register mode only; the mode is
\* looked at by L_processCommand.
L_keyword(command) ==
    IF IncludesAny(command, {"login", "log in", "sign in"}) THEN "login"
    ELSE IF IncludesAny(command, {"register", "sign up", "signup", "create account"})
    THEN "register"
    ELSE IF Includes(command, "help") THEN "help"
    ELSE IF IncludesAny(command, {"go back", "back", "cancel", "home"}) THEN "welcome"
    ELSE IF IncludesAny(command, {"clear", "clear form", "start over", "reset"})
    THEN "clear"
    ELSE IF IncludesAny(command, {"submit", "confirm", "done", "finish"}) THEN "submit"
    ELSE "none"

\* What the effect computes from the transcript alone.
L_parse(text) ==
    LET command == L_command(text)
    IN [ command |-> command,
         keyword |-> L_keyword(command),
         hasNumbers |-> L_hasNumbers(command),
         cleanUsername |-> Trim(StripPunctuation(command)),
         numbers |-> SpokenDigits(command) ]

\* Every final transcript the model's capture can deliver to the login screen.
LoginUtterances ==
    {"Login", "go back", "hello", "rahul", "simone", "one two three four", "submit",
     "help me login", "cancel and submit", "register", "clear form",
     "to too for fore ate oh", "room 7 fore2 nine", "seventy five",
     "Zero five six seven eight", "a before-ten, oh!", "help"}

\* L_parse of each of them, computed once
L_parsed == [t \in LoginUtterances |-> L_parse(t)]

\* the form part without the slice of the new pin to 6 characters
L_formInput_NoSlice(s, p) ==
    LET finalPin == s.pin \o p.numbers
    IN IF /\ s.username = ""
          /\ ~p.hasNumbers
          /\ Len(p.command) >= 2
          /\ Len(p.cleanUsername) >= 2
       THEN L_clearTranscript(
                L_speak([s EXCEPT !.username = p.cleanUsername],
                        L_UsernameText(p.cleanUsername), s.isListening))
       ELSE IF Len(p.numbers) > 0
       THEN L_clearTranscript(
                L_speak([s EXCEPT !.pin = finalPin],
                        L_AddedText(p.numbers, finalPin), s.isListening))
       ELSE IF s.username # ""
       THEN L_clearTranscript(L_speak(s, L_RemindText(s.username), s.isListening))
       ELSE L_clearTranscript(s)

\* the form part taking a name whether or not one is there already
L_formInput_Overwrite(s, p) ==
    LET newPin == s.pin \o p.numbers
        finalPin == SubSeq(newPin, 1, Min(6, Len(newPin)))
    IN IF /\ ~p.hasNumbers
          /\ Len(p.command) >= 2
          /\ Len(p.cleanUsername) >= 2
       THEN L_clearTranscript(
                L_speak([s EXCEPT !.username = p.cleanUsername],
                        L_UsernameText(p.cleanUsername), s.isListening))
       ELSE IF Len(p.numbers) > 0
       THEN L_clearTranscript(
                L_speak([s EXCEPT !.pin = finalPin],
                        L_AddedText(p.numbers, finalPin), s.isListening))
       ELSE IF s.username # ""
       THEN L_clearTranscript(L_speak(s, L_RemindText(s.username), s.isListening))
       ELSE L_clearTranscript(s)

\* the form part going back to the welcome mode whatever was said
L_formInput_Leave(s, p) == L_clearTranscript(handleModeChange(s, "welcome"))

\* Login.tsx:550-593, the form part of the effect once no command keyword matched
L_formInput(s, p) ==
    LET newPin == s.pin \o p.numbers
        finalPin == SubSeq(newPin, 1, Min(6, Len(newPin)))
    IN IF /\ s.username = ""
          /\ ~p.hasNumbers
          /\ Len(p.command) >= 2
          /\ Len(p.cleanUsername) >= 2
       THEN L_clearTranscript(
                L_speak([s EXCEPT !.username = p.cleanUsername],
                        L_UsernameText(p.cleanUsername), s.isListening))
       ELSE IF Len(p.numbers) > 0
       THEN L_clearTranscript(
                L_speak([s EXCEPT !.pin = finalPin],
                        L_AddedText(p.numbers, finalPin), s.isListening))
       ELSE IF s.username # ""
       THEN L_clearTranscript(L_speak(s, L_RemindText(s.username), s.isListening))
       ELSE L_clearTranscript(s)

\* Login.tsx:505-595, the body of the voice command effect for a non-blank
\* lastResult
L_processCommand(s) ==
    LET p == L_parsed[s.lastResult]
    IN IF p.keyword \in {"login", "register", "help", "welcome"}
       THEN L_clearTranscript(handleModeChange(s, p.keyword))
       ELSE IF s.mode \in {"login", "register"}
       THEN IF p.keyword = "clear" THEN L_clearTranscript(handleClearForm(s))
            ELSE IF p.keyword = "submit" THEN L_clearTranscript(handleSubmit(s))
            ELSE L_formInput(s, p)
       ELSE L_clearTranscript(s)

\* What React compares to decide whether a state update re-renders the login
\* screen: the useState values of the hook and of the component.
L_reactState(s) ==
    << s.isListening, s.isSpeaking, s.transcript, s.lastResult, s.mode, s.pin,
       s.username, s.error, s.isProcessing, s.hasSpokenWelcome >>

\* Login.tsx:502-596 the voice command effect.  clearTranscript is a new function
\* at every render, so the effect runs after every render.
L_commandEffect(s) ==
    IF s.lastResult = "" \/ Trim(s.lastResult) = "" THEN s
    ELSE [L_processCommand(s) EXCEPT !.handled = s.handled + 1]

\* Login.tsx:434-443 the welcome effect: speak is a new function at every render,
\* so every render clears the 800 ms timer and sets it again.
L_welcomeEffect(s) == [s EXCEPT !.welcomeTimer = ~s.hasSpokenWelcome]

\* The render a handler's state updates cause, with the effects of that render
\* and of the render those effects cause.
L_render(s) ==
    LET a == L_commandEffect(L_welcomeEffect(s))
    IN IF L_reactState(a) = L_reactState(s) THEN a
       ELSE L_commandEffect(L_welcomeEffect(a))

(***************************************************************************)
(* The shared hook (useVoice.ts), used by the dashboard.                   *)
(***************************************************************************)
\* useVoice.ts:140 startListening
H_startListening(s) ==
    LET a == [SynthCancel(s) EXCEPT !.isSpeaking = FALSE, !.transcript = ""]
    IN IF StartThrows(a) THEN a ELSE RecognitionStart(a)

\* useVoice.ts:161 stopListening
H_stopListening(s) == [RecognitionStop(s) EXCEPT !.isListening = FALSE]

\* useVoice.ts:172 speak
H_speak(s, text) == SynthSpeak(SynthCancel(s), text)

\* a variant of clearTranscript that keeps lastResult
H_clearTranscript_KeepResult(s) == [s EXCEPT !.transcript = ""]

\* useVoice.ts:210 clearTranscript
H_clearTranscript(s) == [s EXCEPT !.transcript = "", !.lastResult = ""]

\* useVoice.ts:92 recognition.onstart
H_recognitionOnStart(s) == [s EXCEPT !.isListening = TRUE]

\* useVoice.ts:97 recognition.onresult, for an event with one new result
H_recognitionOnResult(s, text, final) ==
    IF final /\ text # ""
    THEN [s EXCEPT !.lastResult = Trim(text), !.transcript = Trim(text)]
    ELSE IF ~final /\ text # "" THEN [s EXCEPT !.transcript = text]
    ELSE s

\* useVoice.ts:119 recognition.onend
H_recognitionOnEnd(s) == [s EXCEPT !.isListening = FALSE]

\* useVoice.ts:124 recognition.onerror: the code only decides what is logged
H_recognitionOnError(s, code) == [s EXCEPT !.isListening = FALSE]

\* useVoice.ts:187 utterance.onstart
H_utteranceOnStart(s) == [s EXCEPT !.isSpeaking = TRUE]

\* useVoice.ts:192 utterance.onend
H_utteranceOnEnd(s) == [s EXCEPT !.isSpeaking = FALSE]

\* useVoice.ts:196 utterance.onerror
H_utteranceOnError(s) == [s EXCEPT !.isSpeaking = FALSE]

(***************************************************************************)
(* The dashboard (Dashboard.tsx:85-235).                                   *)
(***************************************************************************)
DashboardModes == {"home", "teach", "exam", "level", "schemes", "jobs", "history"}

\* Dashboard.tsx:34 modes: the ids, and title and description as announced
modes == << "teach", "exam", "level", "schemes", "jobs", "history" >>

D_cardText(i) ==
    CASE i = 0 -> "Teach Me. Learn any subject with voice-guided lessons. Step-by-step explanations at your pace."
      [] i = 1 -> "Exam Preparation. Prepare for UPSC, SSC, and other accessible exams with practice questions."
      [] i = 2 -> "Check My Level. Assess your knowledge level. I will adapt my teaching style to match."
      [] i = 3 -> "Government Schemes. Discover scholarships, pensions, and welfare programs for visually impaired."
      [] i = 4 -> "Find Jobs. Explore accessible job opportunities in government and private sectors."
      [] i = 5 -> "Continue Learning. Resume where you left off. I remember your progress and preferences."

\* Dashboard.tsx:106 instructions
D_instructions(m) ==
    CASE m = "home" -> "You are on your dashboard. You can say: Teach me, Prepare me for an exam, Find government schemes, Find jobs, Check my level, or Continue where we stopped."
      [] m = "teach" -> "Teaching mode. Say any subject like mathematics, science, or history. I will explain it step by step."
      [] m = "exam" -> "Exam preparation mode. Tell me which exam you are preparing for. I know about UPSC, SSC, bank exams, and more."
      [] m = "level" -> "Level check mode. I will ask you questions to understand your knowledge. Say start when ready."
      [] m = "schemes" -> "Government schemes for blind people. I can help with scholarships, pensions, skill development, and assistive devices."
      [] m = "jobs" -> "Job search mode. I can find government jobs, private sector jobs, and work from home opportunities for visually impaired."
      [] m = "history" -> "Your learning history. I remember your preferences and progress. Would you like to continue your last session?"

\* Dashboard.tsx:166-184 what the voice command effect speaks when it sets a mode
D_voiceText(m) ==
    CASE m = "teach" -> "Teaching mode activated. What subject would you like to learn? You can say mathematics, science, history, or any subject."
      [] m = "exam" -> "Exam preparation mode. Which exam are you preparing for? Say UPSC, SSC, or tell me the exam name."
      [] m = "level" -> "Level assessment mode. I will ask you some questions to understand your knowledge level. Say start when ready."
      [] m = "schemes" -> "Government schemes mode. I can help you find scholarships, pensions, and disability support programs. What would you like to explore?"
      [] m = "jobs" -> "Job search mode. I can find accessible jobs in government, private sector, or work from home opportunities. What type of job interests you?"
      [] m = "history" -> "Welcome back! Last time we were learning about mathematics. Would you like to continue, or start something new?"
      [] m = "home" -> "You are on the main dashboard. Choose from: Teach me, Exam preparation, Check my level, Government schemes, Find jobs, or Continue learning."

D_WelcomeText == "Welcome to your dashboard. You can say: Teach me, Prepare me for an exam, Find government schemes, Find jobs, Check my level, or Repeat options."
D_LogoutText == "Logging out. Goodbye!"
D_HelpText == "You can say: Teach me to learn subjects, Prepare for exam, Check my level, Find government schemes, Find jobs, or Continue learning. Say Home to return to main menu."
D_BackText == "Returning to main dashboard."
D_AssessmentText == "Starting assessment. I will ask 5 questions. Question 1: What is 15 plus 27?"

\* speakModeInstructions reading the instructions of home whatever the mode
speakModeInstructions_Home(s, m) == H_speak(s, D_instructions("home"))

\* Dashboard.tsx:105 speakModeInstructions
speakModeInstructions(s, m) == H_speak(s, D_instructions(m))

\* Dashboard.tsx:231 handleModeSelect
handleModeSelect(s, m) == speakModeInstructions([s EXCEPT !.mode = m], m)

\* the keyword tests with help ahead of the others
D_keyword_HelpFirst(command) ==
    IF Includes(command, "help") THEN "help"
    ELSE IF IncludesAny(command, {"teach me", "teach"}) THEN "teach"
    ELSE IF IncludesAny(command, {"exam", "prepare"}) THEN "exam"
    ELSE IF IncludesAny(command, {"level", "check"}) THEN "level"
    ELSE IF IncludesAny(command, {"scheme", "government"}) THEN "schemes"
    ELSE IF IncludesAny(command, {"job", "work", "employment"}) THEN "jobs"
    ELSE IF IncludesAny(command, {"continue", "resume", "history"}) THEN "history"
    ELSE IF IncludesAny(command, {"home", "dashboard", "main menu"}) THEN "home"
    ELSE IF IncludesAny(command, {"repeat", "say again"}) THEN "repeat"
    ELSE IF IncludesAny(command, {"logout", "log out", "exit"}) THEN "logout"
    ELSE "none"

\* Dashboard.tsx:164-192 the keyword tests of the voice command effect, in
\* their order
D_keyword(command) ==
    IF IncludesAny(command, {"teach me", "teach"}) THEN "teach"
    ELSE IF IncludesAny(command, {"exam", "prepare"}) THEN "exam"
    ELSE IF IncludesAny(command, {"level", "check"}) THEN "level"
    ELSE IF IncludesAny(command, {"scheme", "government"}) THEN "schemes"
    ELSE IF IncludesAny(command, {"job", "work", "employment"}) THEN "jobs"
    ELSE IF IncludesAny(command, {"continue", "resume", "history"}) THEN "history"
    ELSE IF IncludesAny(command, {"home", "dashboard", "main menu"}) THEN "home"
    ELSE IF IncludesAny(command, {"repeat", "say again"}) THEN "repeat"
    ELSE IF IncludesAny(command, {"logout", "log out", "exit"}) THEN "logout"
    ELSE IF Includes(command, "help") THEN "help"
    ELSE "none"

\* Every final transcript the model's capture can deliver to the dashboard.
DashboardUtterances ==
    {"Teach me", "Go home", "help me prepare for exam", "Repeat", "Logout", "hello",
     "go home and teach me", "exit and repeat", "back", "dashboard",
     "prepare me for an exam", "check my level", "find government schemes",
     "find jobs", "continue where we stopped", "Help", "say again please"}

\* Dashboard.tsx:158 command and its keyword, for each of them as the hook stores
\* it (trimmed), computed once
D_parsed ==
    [t \in {Trim(u) : u \in DashboardUtterances} |-> D_keyword(Trim(ToLowerCase(t)))]

\* the body of the effect deaf to commands while the volume is muted
D_processCommand_UnlessMuted(s) ==
    LET k == D_parsed[s.lastResult]
        a == IF s.isMuted THEN s
             ELSE IF k \in DashboardModes
             THEN H_speak([s EXCEPT !.mode = k], D_voiceText(k))
             ELSE IF k = "repeat" THEN speakModeInstructions(s, s.mode)
             ELSE IF k = "logout"
             THEN [H_speak(s, D_LogoutText) EXCEPT !.logoutTimer = TRUE]
             ELSE IF k = "help" THEN H_speak(s, D_HelpText)
             ELSE s
    IN H_clearTranscript(a)

\* Dashboard.tsx:158-194 the body of the voice command effect for a non-empty
\* lastResult
D_processCommand(s) ==
    LET k == D_parsed[s.lastResult]
        a == IF k \in DashboardModes
             THEN H_speak([s EXCEPT !.mode = k], D_voiceText(k))
             ELSE IF k = "repeat" THEN speakModeInstructions(s, s.mode)
             ELSE IF k = "logout"
             THEN [H_speak(s, D_LogoutText) EXCEPT !.logoutTimer = TRUE]
             ELSE IF k = "help" THEN H_speak(s, D_HelpText)
             ELSE s
    IN H_clearTranscript(a)

\* handleKeyDown without its test of the mode
handleKeyDown_AnyMode(s, key) ==
    CASE key = "ArrowDown" ->
            [s EXCEPT !.selectedIndex = Min(s.selectedIndex + 1, Len(modes) - 1)]
      [] key = "ArrowUp" ->
            [s EXCEPT !.selectedIndex =
                IF s.selectedIndex - 1 > 0 THEN s.selectedIndex - 1 ELSE 0]
      [] key \in {"Enter", " "} -> handleModeSelect(s, modes[s.selectedIndex + 1])
      [] OTHER -> s

\* Dashboard.tsx:198-217 handleKeyDown
handleKeyDown(s, key) ==
    IF s.mode # "home" THEN s
    ELSE CASE key = "ArrowDown" ->
                [s EXCEPT !.selectedIndex = Min(s.selectedIndex + 1, Len(modes) - 1)]
           [] key = "ArrowUp" ->
                [s EXCEPT !.selectedIndex =
                    IF s.selectedIndex - 1 > 0 THEN s.selectedIndex - 1 ELSE 0]
           [] key \in {"Enter", " "} -> handleModeSelect(s, modes[s.selectedIndex + 1])
           [] OTHER -> s

\* Dashboard.tsx:119-128 the welcome effect (deps: hasSpokenWelcome)
D_welcomeEffect(r, s) == [s EXCEPT !.welcomeTimer = ~r.hasSpokenWelcome]

\* Dashboard.tsx:131-138 the auto-enable effect (deps: hasSpokenWelcome,
\* isSpeaking, isListening): its cleanup clears the timer, its body may set it
D_autoEnableEffect(r, s) ==
    [s EXCEPT !.e2Timer = r.hasSpokenWelcome /\ ~r.isSpeaking /\ ~r.isListening]

\* Dashboard.tsx:141-152 the re-enable effect (deps: isSpeaking, wasListening,
\* isListening)
D_reenableEffect(r, s) ==
    IF r.isSpeaking THEN [s EXCEPT !.e3Timer = FALSE, !.wasListening = TRUE]
    ELSE [s EXCEPT !.e3Timer = r.wasListening /\ ~r.isSpeaking /\ ~r.isListening]

\* Dashboard.tsx:155-195 the voice command effect (deps: lastResult, currentMode,
\* isMuted)
D_commandEffect(r, s) ==
    IF r.lastResult = "" THEN s
    ELSE [D_processCommand(s) EXCEPT !.handled = s.handled + 1]

\* Dashboard.tsx:224-229 the announce effect (deps: selectedIndex)
D_announceEffect(r, s) ==
    IF r.mode = "home" /\ ~r.isSpeaking THEN H_speak(s, D_cardText(r.selectedIndex))
    ELSE s

\* The effects of one render, in the order of their declaration.  p is the
\* previous render, r this one; each effect runs if one of its dependencies
\* differs between the two, reads r, and its updates are collected in the result.
D_effects(p, r) ==
    LET e1 == IF p.hasSpokenWelcome # r.hasSpokenWelcome
              THEN D_welcomeEffect(r, r) ELSE r
        e2 == IF << p.hasSpokenWelcome, p.isSpeaking, p.isListening >>
                 # << r.hasSpokenWelcome, r.isSpeaking, r.isListening >>
              THEN D_autoEnableEffect(r, e1) ELSE e1
        e3 == IF << p.isSpeaking, p.wasListening, p.isListening >>
                 # << r.isSpeaking, r.wasListening, r.isListening >>
              THEN D_reenableEffect(r, e2) ELSE e2
        e4 == IF << p.lastResult, p.mode, p.isMuted >> # << r.lastResult, r.mode, r.isMuted >>
              THEN D_commandEffect(r, e3) ELSE e3
        e6 == IF p.selectedIndex # r.selectedIndex
              THEN D_announceEffect(r, e4) ELSE e4
    IN e6

\* What React compares to decide whether an update re-renders the dashboard.
D_reactState(s) ==
    << s.isListening, s.isSpeaking, s.transcript, s.lastResult, s.mode,
       s.selectedIndex, s.isMuted, s.hasSpokenWelcome, s.wasListening >>

\* The renders a handler's state updates cause, each with its effects, until an
\* effect pass updates no state.  p is the render before the handler, s the
\* state the handler leaves.
RECURSIVE D_renderFrom(_, _, _)
D_renderFrom(p, s, fuel) ==
    IF fuel = 0 \/ D_reactState(p) = D_reactState(s) THEN s
    ELSE CHOOSE n \in {D_renderFrom(s, e, fuel - 1) : e \in {D_effects(p, s)}} : TRUE

D_render(p, s) == D_renderFrom(p, s, RenderFuel)

(***************************************************************************)
(* Initial states: either screen, freshly mounted.                         *)
(***************************************************************************)
Mounted(scr) ==
    [ screen |-> scr, isListening |-> FALSE, isSpeaking |-> FALSE,
      transcript |-> "", lastResult |-> "", shouldRestart |-> TRUE,
      rec |-> "idle", queue |-> << >>, orphans |-> 0,
      welcomeTimer |-> FALSE, timer50 |-> FALSE, timer100 |-> FALSE,
      e2Timer |-> FALSE, e3Timer |-> FALSE, logoutTimer |-> FALSE,
      submits |-> << >>, mode |-> IF scr = "login" THEN "welcome" ELSE "home",
      username |-> "", pin |-> "", error |-> "", isProcessing |-> FALSE,
      hasSpokenWelcome |-> FALSE, selectedIndex |-> 0, isMuted |-> FALSE,
      wasListening |-> FALSE, storedLoggedIn |-> FALSE, storedUsername |-> "",
      turn |-> "none", stopSince |-> FALSE, said |-> "", handled |-> 0 ]

\* a navigation that goes nowhere
Left_Stay(s) == s

\* The page is gone: nothing of the screen is left but what it stored.
Left(s) ==
    [Mounted("left") EXCEPT !.mode = s.mode,
                            !.storedLoggedIn = s.storedLoggedIn,
                            !.storedUsername = s.storedUsername]

\* The state a handler starts from.
Now == Cur

\* The history of the turn.  turn follows the last speak() request: "speaking"
\* from the request on, then "owed" once its utterance has ended with no
\* stopListening() since the request, "held" once it has ended after such a call,
\* "failed" once synthesis of it has failed.
Spoke(n) ==
    IF n.said # "" THEN [n EXCEPT !.turn = "speaking", !.stopSince = FALSE] ELSE n

OutputEnded(s) ==
    IF s.turn = "speaking"
    THEN [s EXCEPT !.turn = IF s.stopSince THEN "held" ELSE "owed"]
    ELSE s

OutputFailed(s) == IF s.turn = "speaking" THEN [s EXCEPT !.turn = "failed"] ELSE s

ExplicitStop(s) ==
    [s EXCEPT !.stopSince = TRUE, !.turn = IF s.turn = "owed" THEN "none" ELSE s.turn]

ExplicitStart(s) ==
    [s EXCEPT !.stopSince = FALSE, !.turn = IF s.turn = "held" THEN "none" ELSE s.turn]

\* A handler's result becomes the next state; it is computed once.
Step(n) == \E x \in {n} : \E y \in {Spoke(x)} : Become(y)

\* The login screen runs a handler: the state it leaves is rendered, with the
\* effects of the render.
L_Do(n) == \E a \in {n} : Step(L_render(a))

\* The dashboard runs a handler: the state it leaves is rendered against the
\* render before it, with the effects of the render.
D_Do(n) == \E p \in {Now} : \E a \in {n} : Step(D_render(p, a))

(***************************************************************************)
(* Inputs.                                                                 *)
(***************************************************************************)
LoginInterim == {"rah"}
TypedNames == {"ana"}
TypedPins == {"123", "4821"}
ErrorCodes == {"no-speech", "aborted", "network"}

(***************************************************************************)
(* Actions of the login screen.                                            *)
(***************************************************************************)
OnLogin == screen = "login"

\* Login.tsx:436 the welcome timer fires
L_WelcomeTimer ==
    /\ OnLogin /\ welcomeTimer
    /\ L_Do([L_speak(Now, L_WelcomeText, isListening)
                           EXCEPT !.hasSpokenWelcome = TRUE, !.welcomeTimer = FALSE])

\* Login.tsx:135 the 50 ms timer set by utterance.onend fires
L_Timer50 ==
    /\ OnLogin /\ timer50
    /\ L_Do(L_restart([Now EXCEPT !.timer50 = FALSE]))

\* Login.tsx:55 the 100 ms timer set by recognition.onend fires
L_Timer100 ==
    /\ OnLogin /\ timer100
    /\ L_Do(L_restart([Now EXCEPT !.timer100 = FALSE]))

\* the platform starts the capture session (Login attaches no onstart)
L_RecStarted ==
    /\ OnLogin /\ rec = "starting"
    /\ Step([Now EXCEPT !.rec = "active"])

\* the platform delivers a result: recognition.onresult
L_RecResult(finals, interims) ==
    /\ OnLogin /\ rec \in {"active", "stopping"}
    /\ \/ \E t \in finals :
            \E a \in {L_recognitionOnResult(Now, t, TRUE)} :
              \E n \in {L_render(a)} : Len(n.submits) <= MaxSubmits /\ Step(n)
       \/ \E t \in interims :
            L_Do(L_recognitionOnResult(Now, t, FALSE))

\* the platform reports an error: recognition.onerror, then the session ends
L_RecError ==
    /\ OnLogin /\ rec \in {"starting", "active"}
    /\ \E code \in ErrorCodes :
         L_Do([L_recognitionOnError(Now, code) EXCEPT !.rec = "ending"])

\* the capture session ends: recognition.onend
L_RecEnd ==
    /\ OnLogin /\ rec \in {"active", "stopping", "ending"}
    /\ L_Do(L_recognitionOnEnd([Now EXCEPT !.rec = "idle"]))

\* the head of the synthesis queue starts playing: utterance.onstart
L_UttStart ==
    /\ OnLogin /\ queue # << >> /\ ~queue[1].started
    /\ L_Do(L_utteranceOnStart([Now EXCEPT !.queue[1].started = TRUE]))

\* the playing utterance ends: utterance.onend
L_UttEnd ==
    /\ OnLogin /\ queue # << >> /\ queue[1].started
    /\ L_Do(L_utteranceOnEnd(OutputEnded([Now EXCEPT !.queue = Tail(queue)])))

\* synthesis of the head utterance fails: an error event (Login attaches no
\* utterance.onerror)
L_UttError ==
    /\ OnLogin /\ queue # << >>
    /\ Step(OutputFailed([Now EXCEPT !.queue = Tail(queue)]))

\* Login.tsx:679-689, 763, 812 the mode buttons
L_ClickMode(targets) ==
    /\ OnLogin
    /\ \E m \in targets :
         /\ IF mode = "welcome" THEN m \in {"login", "register", "help"}
            ELSE m = "welcome"
         /\ L_Do(handleModeChange(Now, m))

\* Login.tsx:766 the clear button
L_ClickClear ==
    /\ OnLogin /\ mode \in {"login", "register"}
    /\ L_Do(handleClearForm(Now))

\* Login.tsx:769 the submit button, disabled while isProcessing
L_ClickSubmit ==
    /\ OnLogin /\ mode \in {"login", "register"} /\ ~isProcessing
    /\ Len(submits) < MaxSubmits
    /\ L_Do(handleSubmit(Now))

\* Login.tsx:722 the username input
L_TypeUsername(names) ==
    /\ OnLogin /\ mode \in {"login", "register"}
    /\ \E u \in names : L_Do([Now EXCEPT !.username = u])

\* Login.tsx:741 the pin input (maxLength 6)
L_TypePin(pins) ==
    /\ OnLogin /\ mode \in {"login", "register"}
    /\ \E p \in pins :
         L_Do([Now EXCEPT !.pin = StripNonDigits(p)])

\* Login.tsx:484 the 1500 ms await of a handleSubmit call is over
L_SubmitResume ==
    /\ OnLogin
    /\ \E i \in 1..Len(submits) :
         /\ submits[i].stage = "await"
         /\ \A j \in 1..(i - 1) : submits[j].stage # "await"
         /\ L_Do(handleSubmitResume(Now, i))

\* Login.tsx:494 the 2500 ms timer of a handleSubmit call fires
L_SubmitNavigate ==
    /\ OnLogin
    /\ \E i \in 1..Len(submits) : submits[i].stage = "navigate"
    /\ Step(Left(Now))

\* the hook's startListening and stopListening (Login.tsx:81, 96); the login
\* screen itself never calls them
L_StartListening ==
    /\ OnLogin
    /\ L_Do(L_startListening(ExplicitStart(Now)))

L_StopListening ==
    /\ OnLogin
    /\ L_Do(L_stopListening(ExplicitStop(Now)))

\* The login screen is unmounted: the cleanups of its effects run
L_Unmount ==
    /\ OnLogin
    /\ Step(L_cleanup(Now))

\* What is left of the hook after the unmount: its timers and the callbacks it
\* attached to the capture session and to the utterances.
Torn == screen = "torn"

T_Timer50 ==
    /\ Torn /\ timer50
    /\ Step(Detached(Now, L_restart([Now EXCEPT !.timer50 = FALSE])))

T_Timer100 ==
    /\ Torn /\ timer100
    /\ Step(Detached(Now, L_restart([Now EXCEPT !.timer100 = FALSE])))

T_RecStarted ==
    /\ Torn /\ rec = "starting"
    /\ Step([Now EXCEPT !.rec = "active"])

T_RecEnd ==
    /\ Torn /\ rec \in {"active", "stopping", "ending"}
    /\ Step(Detached(Now, L_recognitionOnEnd([Now EXCEPT !.rec = "idle"])))

T_UttStart ==
    /\ Torn /\ queue # << >> /\ ~queue[1].started
    /\ Step(Detached(Now, L_utteranceOnStart([Now EXCEPT !.queue[1].started = TRUE])))

T_UttEnd ==
    /\ Torn /\ queue # << >> /\ queue[1].started
    /\ Step(Detached(Now, L_utteranceOnEnd(OutputEnded([Now EXCEPT !.queue = Tail(queue)]))))

\* The turn-taking controller under every platform event, timer and hook call,
\* with the mode changes of the screen.
TurnUtterances == {"Login", "go back", "hello"}

LoginTurnNext ==
    \/ L_WelcomeTimer \/ L_Timer50 \/ L_Timer100
    \/ L_RecStarted \/ L_RecResult(TurnUtterances, LoginInterim) \/ L_RecError \/ L_RecEnd
    \/ L_UttStart \/ L_UttEnd \/ L_UttError
    \/ L_ClickMode(AuthModes)

\* The credential form of the login screen: typing a draft and submitting it by
\* the button or by voice, on a platform that reports no error.
FormUtterances == {"submit"}

LoginFormNext ==
    \/ L_WelcomeTimer \/ L_Timer50 \/ L_Timer100
    \/ L_RecStarted \/ L_RecResult(FormUtterances, LoginInterim) \/ L_RecEnd
    \/ L_UttStart \/ L_UttEnd
    \/ L_ClickMode({"login"}) \/ L_ClickSubmit
    \/ L_TypeUsername(TypedNames) \/ L_TypePin(TypedPins)
    \/ L_SubmitResume \/ L_SubmitNavigate

\* The Credential Draft of the login screen filled by voice and by typing,
\* cleared and left, on a platform that reports no error.
DraftUtterances == {"rahul", "one two three four", "hello", "go back", "help"}
DraftPins == {"12a4"}

LoginDraftNext ==
    \/ L_WelcomeTimer \/ L_Timer50 \/ L_Timer100
    \/ L_RecStarted \/ L_RecResult(DraftUtterances, LoginInterim) \/ L_RecEnd
    \/ L_UttStart \/ L_UttEnd
    \/ L_ClickMode({"login"}) \/ L_ClickClear
    \/ L_TypePin(DraftPins)

\* The pin of the login screen dictated in number words, misrecognized number
\* words and digit characters, after a username.
DigitUtterances ==
    {"rahul", "to too for fore ate oh", "room 7 fore2 nine", "seventy five"}

LoginDigitNext ==
    \/ L_WelcomeTimer \/ L_Timer50 \/ L_Timer100
    \/ L_RecStarted \/ L_RecResult(DigitUtterances, LoginInterim) \/ L_RecEnd
    \/ L_UttStart \/ L_UttEnd
    \/ L_ClickMode({"login"}) \/ L_ClickClear

(***************************************************************************)
(* Actions of the dashboard.                                               *)
(***************************************************************************)
OnDashboard == screen = "dashboard"

\* The dashboard right after its first render and that render's effects: the
\* welcome timer is set (Dashboard.tsx:121) and the announce effect has asked
\* for the first card to be read out (Dashboard.tsx:227).
D_mounted ==
    Spoke(D_announceEffect(Mounted("dashboard"),
                           [Mounted("dashboard") EXCEPT !.welcomeTimer = TRUE]))

\* Dashboard.tsx:121 the welcome timer fires
D_WelcomeTimer ==
    /\ OnDashboard /\ welcomeTimer
    /\ D_Do([H_speak(Now, D_WelcomeText)
                              EXCEPT !.hasSpokenWelcome = TRUE, !.welcomeTimer = FALSE])

\* Dashboard.tsx:133 the auto-enable timer fires
D_AutoEnableTimer ==
    /\ OnDashboard /\ e2Timer
    /\ D_Do(H_startListening([Now EXCEPT !.e2Timer = FALSE]))

\* Dashboard.tsx:146 the re-enable timer fires
D_ReenableTimer ==
    /\ OnDashboard /\ e3Timer
    /\ D_Do([H_startListening([Now EXCEPT !.e3Timer = FALSE])
                              EXCEPT !.wasListening = FALSE])

\* Dashboard.tsx:189, 268 the logout timer fires: navigate('/')
D_LogoutTimer ==
    /\ OnDashboard /\ logoutTimer
    /\ Step(Left(Now))

\* the platform starts the capture session: recognition.onstart
D_RecStarted ==
    /\ OnDashboard /\ rec = "starting"
    /\ D_Do(H_recognitionOnStart([Now EXCEPT !.rec = "active"]))

\* the platform delivers a result: recognition.onresult.  The session is not
\* continuous (Dashboard.tsx:103): it ends after its final result.
D_RecResult(finals, interims) ==
    /\ OnDashboard /\ rec \in {"active", "stopping"}
    /\ \/ \E t \in finals :
            D_Do(H_recognitionOnResult([Now EXCEPT !.rec = "ending"], t, TRUE))
       \/ \E t \in interims :
            D_Do(H_recognitionOnResult(Now, t, FALSE))

\* the platform reports an error: recognition.onerror, then the session ends
D_RecError ==
    /\ OnDashboard /\ rec \in {"starting", "active"}
    /\ \E code \in ErrorCodes :
         D_Do(H_recognitionOnError([Now EXCEPT !.rec = "ending"], code))

\* the capture session ends: recognition.onend
D_RecEnd ==
    /\ OnDashboard /\ rec \in {"active", "stopping", "ending"}
    /\ D_Do(H_recognitionOnEnd([Now EXCEPT !.rec = "idle"]))

\* the head of the synthesis queue starts playing, once the error events of the
\* utterances cancelled before it are dispatched: utterance.onstart
D_UttStart ==
    /\ OnDashboard /\ queue # << >> /\ ~queue[1].started /\ orphans = 0
    /\ D_Do(H_utteranceOnStart([Now EXCEPT !.queue[1].started = TRUE]))

\* the playing utterance ends: utterance.onend
D_UttEnd ==
    /\ OnDashboard /\ queue # << >> /\ queue[1].started
    /\ D_Do(H_utteranceOnEnd(OutputEnded([Now EXCEPT !.queue = Tail(queue)])))

\* synthesis of the head utterance fails: utterance.onerror
D_UttError ==
    /\ OnDashboard /\ queue # << >> /\ orphans = 0
    /\ D_Do(H_utteranceOnError(OutputFailed([Now EXCEPT !.queue = Tail(queue)])))

\* the error event of a cancelled utterance is dispatched: utterance.onerror
D_CancelledError ==
    /\ OnDashboard /\ orphans > 0
    /\ D_Do(H_utteranceOnError([Now EXCEPT !.orphans = orphans - 1]))

\* Dashboard.tsx:325 a card is clicked
D_ClickCard(cards) ==
    /\ OnDashboard /\ mode = "home"
    /\ \E i \in cards : D_Do(handleModeSelect(Now, modes[i + 1]))

\* Dashboard.tsx:326 a card gets the focus
D_FocusCard(cards) ==
    /\ OnDashboard /\ mode = "home"
    /\ \E i \in cards : D_Do([Now EXCEPT !.selectedIndex = i])

\* Dashboard.tsx:199 a key goes down
D_KeyDown(keys) ==
    /\ OnDashboard
    /\ \E key \in keys : D_Do(handleKeyDown(Now, key))

\* Dashboard.tsx:525 the back button
D_ClickBack ==
    /\ OnDashboard /\ mode # "home"
    /\ D_Do(H_speak([Now EXCEPT !.mode = "home"], D_BackText))

\* Dashboard.tsx:484 the start assessment button of level mode
D_ClickAssessment ==
    /\ OnDashboard /\ mode = "level"
    /\ D_Do(H_speak(Now, D_AssessmentText))

\* Dashboard.tsx:257 the mute button
D_ClickMute ==
    /\ OnDashboard
    /\ D_Do([Now EXCEPT !.isMuted = ~isMuted])

\* Dashboard.tsx:266 the logout button
D_ClickLogout ==
    /\ OnDashboard
    /\ D_Do([H_speak(Now, D_LogoutText) EXCEPT !.logoutTimer = TRUE])

\* Dashboard.tsx:543 the microphone button
D_ClickMic ==
    /\ OnDashboard
    /\ D_Do(IF isListening THEN H_stopListening(ExplicitStop(Now))
                          ELSE H_startListening(ExplicitStart(Now)))

DashTurnUtterances == {"Teach me", "Go home", "hello"}

DashTurnNext ==
    \/ D_WelcomeTimer \/ D_AutoEnableTimer \/ D_ReenableTimer \/ D_LogoutTimer
    \/ D_RecStarted \/ D_RecResult(DashTurnUtterances, {"tea"}) \/ D_RecError \/ D_RecEnd
    \/ D_UttStart \/ D_UttEnd \/ D_UttError \/ D_CancelledError
    \/ D_ClickCard({0, 2}) \/ D_ClickBack \/ D_ClickAssessment
    \/ D_ClickLogout \/ D_ClickMic

\* Voice commands with the keywords of more than one intent, said to either
\* screen in any of its listening, speaking and mute states, on a platform that
\* reports no error.
LoginCommandUtterances == {"help me login", "cancel and submit", "rahul"}
DashCommandUtterances ==
    {"help me prepare for exam", "go home and teach me", "exit and repeat", "Help"}

CommandNext ==
    \/ L_WelcomeTimer \/ L_Timer50 \/ L_Timer100
    \/ L_RecStarted \/ L_RecResult(LoginCommandUtterances, LoginInterim) \/ L_RecEnd
    \/ L_UttStart \/ L_UttEnd
    \/ D_WelcomeTimer \/ D_AutoEnableTimer \/ D_ReenableTimer
    \/ D_RecStarted \/ D_RecResult(DashCommandUtterances, {"tea"}) \/ D_RecEnd
    \/ D_UttStart \/ D_UttEnd \/ D_CancelledError
    \/ D_ClickBack \/ D_ClickMute

Init ==
    \/ Become0(L_welcomeEffect(Mounted("login")))
    \/ Become0(D_mounted)

Next == LoginTurnNext \/ DashTurnNext

Spec == Init /\ [][Next]_vars

FormSpec == Init /\ [][LoginFormNext]_vars

DraftSpec == Init /\ [][LoginDraftNext]_vars
DigitSpec == Init /\ [][LoginDigitNext]_vars

\* The login screen unmounted at any moment of the turn-taking, on a platform
\* that reports no error, and what its timers and callbacks do afterwards.
TeardownNext ==
    \/ L_WelcomeTimer \/ L_Timer50 \/ L_Timer100
    \/ L_RecStarted \/ L_RecResult(TurnUtterances, LoginInterim) \/ L_RecEnd
    \/ L_UttStart \/ L_UttEnd
    \/ L_ClickMode(AuthModes)
    \/ L_Unmount
    \/ T_Timer50 \/ T_Timer100 \/ T_RecStarted \/ T_RecEnd \/ T_UttStart \/ T_UttEnd

TeardownSpec == Init /\ [][TeardownNext]_vars

\* The dashboard driven from the keyboard: arrow keys, Enter, Space and one
\* other key in every mode, the focus moved to a card, the back button.
Keys == {"ArrowDown", "ArrowUp", "Enter", " ", "a"}

KeyNext ==
    \/ D_WelcomeTimer \/ D_AutoEnableTimer \/ D_ReenableTimer
    \/ D_RecStarted \/ D_RecEnd
    \/ D_UttStart \/ D_UttEnd \/ D_CancelledError
    \/ D_KeyDown(Keys) \/ D_FocusCard({0, 3}) \/ D_ClickBack

KeySpec == Init /\ [][KeyNext]_vars

CommandSpec == Init /\ [][CommandNext]_vars

(***************************************************************************)
(* The turn-taking controller on a platform that grants every capture      *)
(* request (no recognition error), with the scheduling of the browser:     *)
(* a timer that is set fires, a requested session starts, a stopped or     *)
(* finished session ends, a queued utterance starts and a playing one      *)
(* terminates.  A session that is ending has ended before the dashboard's  *)
(* 500 ms and 800 ms timers fire.  Nothing is assumed of the user.         *)
(***************************************************************************)
L_RecFinish == rec \in {"stopping", "ending"} /\ L_RecEnd
D_RecFinish == rec \in {"stopping", "ending"} /\ D_RecEnd
D_AutoEnableSettled == rec \notin {"stopping", "ending"} /\ D_AutoEnableTimer
D_ReenableSettled == rec \notin {"stopping", "ending"} /\ D_ReenableTimer

FairNext ==
    \/ L_WelcomeTimer \/ L_Timer50 \/ L_Timer100
    \/ L_RecStarted \/ L_RecResult(TurnUtterances, LoginInterim) \/ L_RecEnd
    \/ L_UttStart \/ L_UttEnd \/ L_UttError
    \/ L_ClickMode(AuthModes)
    \/ D_WelcomeTimer \/ D_AutoEnableSettled \/ D_ReenableSettled \/ D_LogoutTimer
    \/ D_RecStarted \/ D_RecResult(DashTurnUtterances, {"tea"}) \/ D_RecEnd
    \/ D_UttStart \/ D_UttEnd \/ D_UttError \/ D_CancelledError
    \/ D_ClickCard({0, 2}) \/ D_ClickBack \/ D_ClickAssessment
    \/ D_ClickLogout \/ D_ClickMic

Scheduling ==
    /\ WF_vars(L_WelcomeTimer) /\ WF_vars(L_Timer50) /\ WF_vars(L_Timer100)
    /\ WF_vars(L_RecStarted) /\ WF_vars(L_RecFinish)
    /\ WF_vars(L_UttStart) /\ WF_vars(L_UttEnd)
    /\ WF_vars(D_WelcomeTimer) /\ WF_vars(D_AutoEnableSettled)
    /\ WF_vars(D_ReenableSettled) /\ WF_vars(D_LogoutTimer)
    /\ WF_vars(D_RecStarted) /\ WF_vars(D_RecFinish)
    /\ WF_vars(D_UttStart) /\ WF_vars(D_UttEnd) /\ WF_vars(D_CancelledError)

FairSpec == Init /\ [][FairNext]_vars /\ Scheduling

(***************************************************************************)
(* The same with the transient errors of capture: the platform may end a   *)
(* session with no-speech or aborted, before or after it has started, but  *)
(* not every session: a start that is requested again and again is granted *)
(* in the end (strong fairness of the start).                              *)
(***************************************************************************)
TransientCodes == {"no-speech", "aborted"}

L_RecTransient ==
    /\ OnLogin /\ rec \in {"starting", "active"}
    /\ \E code \in TransientCodes :
         L_Do([L_recognitionOnError(Now, code) EXCEPT !.rec = "ending"])

D_RecTransient ==
    /\ OnDashboard /\ rec \in {"starting", "active"}
    /\ \E code \in TransientCodes :
         D_Do(H_recognitionOnError([Now EXCEPT !.rec = "ending"], code))

TransientNext == FairNext \/ L_RecTransient \/ D_RecTransient

TransientSpec ==
    /\ Init /\ [][TransientNext]_vars /\ Scheduling
    /\ SF_vars(L_RecStarted) /\ SF_vars(D_RecStarted)

(***************************************************************************)
(* C1.  Mutual exclusion: capture-active and output-active are never both  *)
(* true, on the login screen and on the dashboard.                         *)
(***************************************************************************)
C1_MutualExclusion == ~(isListening /\ isSpeaking)

\* the same on the login screen alone and on the dashboard alone
C1_MutualExclusionLogin == OnLogin => ~(isListening /\ isSpeaking)
C1_MutualExclusionDashboard == OnDashboard => ~(isListening /\ isSpeaking)

\* the same of the platform services themselves: no utterance plays while a
\* capture session is running
C1_PlatformLogin == OnLogin => ~(rec = "active" /\ SynthSpeaking(Cur))
C1_PlatformDashboard == OnDashboard => ~(rec = "active" /\ SynthSpeaking(Cur))

C3_ExplicitStopWins ==
    (turn = "held") => (~isListening /\ rec \notin {"starting", "active"})

(***************************************************************************)
(* C4.  Explicit stop is respected: after stopListening() capture is not   *)
(* started again before the next startListening() or speak(); the          *)
(* dashboard's microphone button that stops capture leaves it off.         *)
(***************************************************************************)
C4_ExplicitStopRespected ==
    stopSince => (~isListening /\ rec \notin {"starting", "active"})

(***************************************************************************)
(* C5.  The user's turn is never lost: after a speak(), however its        *)
(* utterance terminates (end, synthesis error, cancellation) and with no   *)
(* stopListening(), capture becomes active again, unless a new utterance   *)
(* is requested or the page is left.                                       *)
(***************************************************************************)
UtterancePending == queue # << >> /\ ~queue[1].started

C5_TurnNeverLost ==
    (turn \in {"speaking", "owed", "failed"} /\ ~stopSince)
        ~> (isListening \/ stopSince \/ UtterancePending \/ screen = "left")

C5_TurnNeverLostLogin ==
    (OnLogin /\ turn \in {"speaking", "owed", "failed"} /\ ~stopSince)
        ~> (isListening \/ stopSince \/ UtterancePending \/ screen = "left")

C5_TurnNeverLostDashboard ==
    (OnDashboard /\ turn \in {"speaking", "owed", "failed"} /\ ~stopSince)
        ~> (isListening \/ stopSince \/ UtterancePending \/ screen = "left")

(***************************************************************************)
(* C6.  Each final transcript is handled exactly once: the render that     *)
(* follows its delivery runs the voice command effect once and leaves      *)
(* lastResult empty, so that no later render (mode change, typing, mute)   *)
(* handles it again; none is left unhandled.                               *)
(***************************************************************************)
CaptureDelivers == rec \in {"active", "stopping"}

C6_HandledOnce ==
    /\ lastResult = ""
    /\ (OnLogin /\ CaptureDelivers) =>
          \A t \in LoginUtterances :
             \A n \in {L_render(L_recognitionOnResult(Now, t, TRUE))} :
                n.handled = 1 /\ n.lastResult = ""
    /\ (OnDashboard /\ CaptureDelivers) =>
          \A t \in DashboardUtterances :
             \A n \in {D_render(Now, H_recognitionOnResult([Now EXCEPT !.rec = "ending"], t, TRUE))} :
                n.handled = 1 /\ n.lastResult = ""
    /\ OnLogin =>
          \A m \in AuthModes : L_render(handleModeChange(Now, m)).handled = 0
    /\ OnDashboard =>
          /\ D_render(Now, [Now EXCEPT !.isMuted = ~isMuted]).handled = 0
          /\ \A i \in 1..Len(modes) :
                D_render(Now, handleModeSelect(Now, modes[i])).handled = 0

\* a spoken command was delivered to the dashboard and consumed: the reply of
\* the voice command effect is queued and lastResult is empty again
C6_Handled ==
    /\ OnDashboard /\ rec = "ending" /\ lastResult = ""
    /\ queue # << >> /\ queue[1].text = D_voiceText("teach")

(***************************************************************************)
(* C7.  speak() cancels: at most one utterance is pending or playing, and  *)
(* nothing an earlier utterance set up (its restart timer) acts once a     *)
(* later utterance has been requested.                                     *)
(***************************************************************************)
C7_AtMostOneUtterance == Len(queue) <= 1

C7_NoStaleRestart == [][~(queue # << >> /\ L_Timer50 /\ rec' = "starting")]_vars

(***************************************************************************)
(* C8.  Voice and click are equivalent: a mode change by a spoken command  *)
(* and the same change by its button lead to the same mode and the same    *)
(* spoken text, on the login screen and on the dashboard.                  *)
(***************************************************************************)
L_ByVoice(t) == L_render(L_recognitionOnResult(Now, t, TRUE))
L_ByClick(m) == L_render(handleModeChange(Now, m))
D_ByVoice(t) == D_render(Now, H_recognitionOnResult([Now EXCEPT !.rec = "ending"], t, TRUE))
D_ByCard(m) == D_render(Now, handleModeSelect(Now, m))
D_ByBack == D_render(Now, H_speak([Now EXCEPT !.mode = "home"], D_BackText))

C8_LoginEquivalent ==
    (OnLogin /\ CaptureDelivers) =>
        /\ mode = "welcome" =>
              /\ L_ByVoice("Login").mode = L_ByClick("login").mode
              /\ L_ByVoice("Login").said = L_ByClick("login").said
        /\ mode # "welcome" =>
              /\ L_ByVoice("go back").mode = L_ByClick("welcome").mode
              /\ L_ByVoice("go back").said = L_ByClick("welcome").said

C8_DashboardSameMode ==
    (OnDashboard /\ CaptureDelivers) =>
        /\ mode = "home" => D_ByVoice("Teach me").mode = D_ByCard("teach").mode
        /\ mode # "home" => D_ByVoice("Go home").mode = D_ByBack.mode

C8_DashboardSameText ==
    (OnDashboard /\ CaptureDelivers) =>
        /\ mode = "home" => D_ByVoice("Teach me").said = D_ByCard("teach").said
        /\ mode # "home" => D_ByVoice("Go home").said = D_ByBack.said

C8_VoiceClickEquivalent ==
    C8_LoginEquivalent /\ C8_DashboardSameMode /\ C8_DashboardSameText

(***************************************************************************)
(* C9.  A submission with an empty username or a pin shorter than 4 fails: *)
(* the error message is set and spoken, mode and draft stay as they are,   *)
(* nothing is stored and no navigation is scheduled; isLoggedIn is stored  *)
(* only if a submission with a username and a pin of 4 or more was made.   *)
(***************************************************************************)
Rejected(n) ==
    /\ n.error = L_ErrorMessage /\ n.said = L_ErrorText
    /\ n.mode = mode /\ n.username = username /\ n.pin = pin
    /\ n.storedLoggedIn = storedLoggedIn /\ n.storedUsername = storedUsername
    /\ n.submits = submits /\ n.screen = "login"

ValidSubmission(c) == c.username # "" /\ Len(c.pin) >= 4

C9_InvalidSubmissionFails ==
    /\ (OnLogin /\ mode \in {"login", "register"} /\ (username = "" \/ Len(pin) < 4)) =>
          /\ \A n \in {L_render(handleSubmit(Now))} : Rejected(n)
          /\ CaptureDelivers =>
                \A n \in {L_render(L_recognitionOnResult(Now, "submit", TRUE))} : Rejected(n)
    /\ OnLogin => \A i \in 1..Len(submits) : ValidSubmission(submits[i])
    /\ (OnLogin /\ storedLoggedIn) =>
          \E i \in 1..Len(submits) :
             submits[i].stage = "navigate" /\ storedUsername = submits[i].username
    /\ screen = "left" => storedLoggedIn /\ storedUsername # ""

\* an incomplete draft was submitted and rejected
C9_Rejected ==
    /\ OnLogin /\ error = L_ErrorMessage /\ username = "ana" /\ pin = "123"
    /\ submits = << >> /\ ~storedLoggedIn

(***************************************************************************)
(* C10.  A submission with a username and a pin of 4 or more stores        *)
(* isLoggedIn and its username and navigates afterwards: the page is never *)
(* left while a submission has not stored yet.                             *)
(***************************************************************************)
C10_StoredBeforeNavigation ==
    [][L_SubmitNavigate => \A i \in 1..Len(submits) : submits[i].stage = "navigate"]_vars

(***************************************************************************)
(* C11.  Credential accumulation: in login or register mode with an empty  *)
(* draft, a final utterance with no command keyword, no digit and no       *)
(* spelled number word, of two characters or more once punctuation is      *)
(* stripped, becomes the username and leaves the pin empty; "one two three *)
(* four" after it makes the pin "1234".                                    *)
(***************************************************************************)
HasDigit(command) == \E i \in 1..Len(command) : IsDigit(CharAt(command, i))

\* one of the words zero to nine stands in the command
HasNumberWord(command) == ReplaceNumberWords(command, 10) # command

IsNameUtterance(t) ==
    /\ L_keyword(L_command(t)) = "none"
    /\ ~HasDigit(L_command(t)) /\ ~HasNumberWord(L_command(t))
    /\ Len(Trim(StripPunctuation(L_command(t)))) >= 2

NameUtterances == {t \in LoginUtterances : IsNameUtterance(t)}

FreshDraft ==
    OnLogin /\ mode \in {"login", "register"} /\ username = "" /\ pin = ""

NameThenPin(t) ==
    \A n \in {L_render(L_recognitionOnResult(Now, t, TRUE))} :
       /\ n.username = Trim(StripPunctuation(L_command(t))) /\ n.pin = ""
       /\ \A m \in {L_render(L_recognitionOnResult(n, "one two three four", TRUE))} :
             m.username = n.username /\ m.pin = "1234"

C11_UsernameThenPin ==
    (FreshDraft /\ CaptureDelivers) => \A t \in NameUtterances : NameThenPin(t)

\* the example of the specification alone
C11_RahulThenPin == (FreshDraft /\ CaptureDelivers) => NameThenPin("rahul")

(***************************************************************************)
(* C12.  On the login screen the pin holds digits only and at most 6 of    *)
(* them, whatever was said, typed, cleared or left; digits appended past 6 *)
(* keep the first 6 characters of the old pin followed by the new digits.  *)
(***************************************************************************)
AllDigits(p) == \A i \in 1..Len(p) : IsDigit(CharAt(p, i))

C12_PinDigitsAtMostSix ==
    /\ OnLogin => AllDigits(pin) /\ Len(pin) <= 6
    /\ (OnLogin /\ mode \in {"login", "register"} /\ CaptureDelivers) =>
          \A n \in {L_render(L_recognitionOnResult(Now, "one two three four", TRUE))} :
             /\ Len(pin) <= 2 => n.pin = pin \o "1234"
             /\ Len(pin) > 2 => n.pin = pin \o SubSeq("1234", 1, 6 - Len(pin))

\* a pin filled to 6 by digits spoken onto a pin that was typed
C12_Truncated == OnLogin /\ pin = "124123"

(***************************************************************************)
(* C13.  A final transcript that matches no predicate of the active mode   *)
(* leaves the mode, the username and the pin as they were, on the login    *)
(* screen and on the dashboard, in every mode.                             *)
(***************************************************************************)
\* no test of the login effect accepts t in the current mode and draft
L_Unrecognized(t) ==
    /\ L_parsed[t].keyword \notin {"login", "register", "help", "welcome"}
    /\ mode \in {"login", "register"} =>
          /\ L_parsed[t].keyword = "none"
          /\ ~(username = "" /\ ~L_parsed[t].hasNumbers /\ Len(L_parsed[t].cleanUsername) >= 2)
          /\ L_parsed[t].numbers = ""

D_Unrecognized(t) == D_parsed[Trim(t)] = "none"

SameModeAndDraft(n) == n.mode = mode /\ n.username = username /\ n.pin = pin

C13_UnrecognizedChangesNothing ==
    /\ (OnLogin /\ CaptureDelivers) =>
          \A t \in LoginUtterances :
             L_Unrecognized(t) => \A n \in {L_ByVoice(t)} : SameModeAndDraft(n)
    /\ (OnDashboard /\ CaptureDelivers) =>
          \A t \in DashboardUtterances :
             D_Unrecognized(t) => \A n \in {D_ByVoice(t)} : SameModeAndDraft(n)

\* "hello" was said to a draft that had a username: the reminder is queued and
\* the draft is as it was
C13_Reminded ==
    /\ OnLogin /\ mode = "login" /\ username = "hello" /\ pin = ""
    /\ Len(queue) > 0 /\ queue[Len(queue)].text = L_RemindText("hello")

(***************************************************************************)
(* C14.  An unrecognized transcript is dropped in silence: a final         *)
(* transcript with no command keyword, that sets no username and holds no  *)
(* digit and no number word, makes no speak() request, in any mode and for *)
(* any draft.                                                              *)
(***************************************************************************)
C14_UnrecognizedSilent ==
    /\ (OnLogin /\ CaptureDelivers) =>
          \A t \in LoginUtterances :
             \A n \in {L_ByVoice(t)} :
                (/\ L_parsed[t].keyword = "none"
                 /\ n.username = username
                 /\ ~HasDigit(L_command(t)) /\ ~HasNumberWord(L_command(t)))
                => n.said = ""
    /\ (OnDashboard /\ CaptureDelivers) =>
          \A t \in DashboardUtterances :
             D_Unrecognized(t) => \A n \in {D_ByVoice(t)} : n.said = ""

\* the dashboard alone
C14_DashboardSilent ==
    (OnDashboard /\ CaptureDelivers) =>
        \A t \in DashboardUtterances :
           D_Unrecognized(t) => \A n \in {D_ByVoice(t)} : n.said = ""

(***************************************************************************)
(* C15.  The classifier acts on the first matching rule of a fixed order   *)
(* and on that rule alone.  On the login screen the order is login,        *)
(* register, help, back, then clear and submit; on the dashboard it is     *)
(* teach, exam, level, schemes, jobs, history, then home, repeat, logout,  *)
(* help.  (As claimed: login, register, help, logout and home come before  *)
(* the content keywords, and repeat, clear and submit come last.)          *)
(***************************************************************************)
D_Keywords(k) ==
    CASE k = "teach" -> {"teach me", "teach"}
      [] k = "exam" -> {"exam", "prepare"}
      [] k = "level" -> {"level", "check"}
      [] k = "schemes" -> {"scheme", "government"}
      [] k = "jobs" -> {"job", "work", "employment"}
      [] k = "history" -> {"continue", "resume", "history"}
      [] k = "home" -> {"home", "dashboard", "main menu"}
      [] k = "repeat" -> {"repeat", "say again"}
      [] k = "logout" -> {"logout", "log out", "exit"}
      [] k = "help" -> {"help"}

L_Keywords(k) ==
    CASE k = "login" -> {"login", "log in", "sign in"}
      [] k = "register" -> {"register", "sign up", "signup", "create account"}
      [] k = "help" -> {"help"}
      [] k = "welcome" -> {"go back", "back", "cancel", "home"}
      [] k = "clear" -> {"clear", "clear form", "start over", "reset"}
      [] k = "submit" -> {"submit", "confirm", "done", "finish"}

\* the intents in the order the code tests them
D_CodeOrder ==
    << "teach", "exam", "level", "schemes", "jobs", "history",
       "home", "repeat", "logout", "help" >>
L_CodeOrder == << "login", "register", "help", "welcome", "clear", "submit" >>

\* the intents in the order claimed: navigation, content, generic fallbacks
D_ClaimedOrder ==
    << "help", "logout", "home",
       "teach", "exam", "level", "schemes", "jobs", "history", "repeat" >>

\* the first intent of the order with a keyword in the command, "none" if none
FirstMatch(order, words(_), command) ==
    LET hits == {i \in 1..Len(order) : IncludesAny(command, words(order[i]))}
    IN IF hits = {} THEN "none"
       ELSE order[CHOOSE i \in hits : \A j \in hits : i <= j]

D_FirstInCode ==
    [t \in DashboardUtterances |-> FirstMatch(D_CodeOrder, D_Keywords, Trim(ToLowerCase(t)))]
D_FirstAsClaimed ==
    [t \in DashboardUtterances |-> FirstMatch(D_ClaimedOrder, D_Keywords, Trim(ToLowerCase(t)))]
L_FirstInCode ==
    [t \in LoginUtterances |-> FirstMatch(L_CodeOrder, L_Keywords, L_command(t))]

\* the keywords of more than one intent stand in the transcript
D_Competing ==
    {t \in DashboardUtterances :
        Cardinality({i \in 1..Len(D_CodeOrder) :
            IncludesAny(Trim(ToLowerCase(t)), D_Keywords(D_CodeOrder[i]))}) > 1}
L_Competing ==
    {t \in LoginUtterances :
        Cardinality({i \in 1..Len(L_CodeOrder) :
            IncludesAny(L_command(t), L_Keywords(L_CodeOrder[i]))}) > 1}

\* handling the transcript did what intent k does, and nothing else
D_Acted(n, k) ==
    /\ n.handled = 1
    /\ k \in DashboardModes => n.mode = k /\ n.said = D_voiceText(k)
    /\ k \notin DashboardModes => n.mode = mode
    /\ k = "repeat" => n.said = D_instructions(mode)
    /\ k = "logout" => n.said = D_LogoutText /\ n.logoutTimer
    /\ k # "logout" => n.logoutTimer = logoutTimer
    /\ k = "help" => n.said = D_HelpText
    /\ k = "none" => n.said = ""

L_Acted(n, k) ==
    /\ n.handled = 1
    /\ k \in AuthModes => n.mode = k /\ n.said = L_messages(k)
    /\ k \notin AuthModes => n.mode = mode
    /\ (k = "clear" /\ mode \in {"login", "register"}) => n.said = L_ClearedText
    /\ (k = "submit" /\ mode \in {"login", "register"}) =>
          n.said \in {L_ErrorText, L_ProcessingText}
    /\ (k \in {"clear", "submit"} /\ mode \notin {"login", "register"}) => n.said = ""

C15_FirstMatchInCodeOrder ==
    /\ (OnLogin /\ CaptureDelivers) =>
          \A t \in LoginUtterances :
             L_FirstInCode[t] # "none" =>
                \A n \in {L_ByVoice(t)} : L_Acted(n, L_FirstInCode[t])
    /\ (OnDashboard /\ CaptureDelivers) =>
          \A t \in DashboardUtterances :
             \A n \in {D_ByVoice(t)} : D_Acted(n, D_FirstInCode[t])

\* the claimed order on the dashboard
C15_NavigationFirst ==
    (OnDashboard /\ CaptureDelivers) =>
        \A t \in D_Competing :
           \A n \in {D_ByVoice(t)} : D_Acted(n, D_FirstAsClaimed[t])

\* "go home and teach me" was said: the teach intent was acted on, not home
C15_TeachOverHome ==
    /\ OnDashboard /\ mode = "teach"
    /\ Len(queue) > 0 /\ queue[Len(queue)].text = D_voiceText("teach")

(***************************************************************************)
(* C16.  On the dashboard "help me prepare for exam", and any transcript   *)
(* with an exam keyword and "help" and no teach keyword, resolves to the   *)
(* exam intent: the mode becomes exam and the exam confirmation is spoken, *)
(* never the help response.                                                *)
(***************************************************************************)
ExamWithHelp ==
    {t \in DashboardUtterances :
        /\ IncludesAny(Trim(ToLowerCase(t)), D_Keywords("exam"))
        /\ IncludesAny(Trim(ToLowerCase(t)), D_Keywords("help"))
        /\ ~IncludesAny(Trim(ToLowerCase(t)), D_Keywords("teach"))}

C16_ExamOverHelp ==
    /\ "help me prepare for exam" \in ExamWithHelp
    /\ (OnDashboard /\ CaptureDelivers) =>
          \A t \in ExamWithHelp :
             \A n \in {D_ByVoice(t)} :
                /\ n.mode = "exam"
                /\ n.said = D_voiceText("exam")
                /\ n.said # D_HelpText
                /\ \A i \in 1..Len(n.queue) : n.queue[i].text # D_HelpText

\* "help me prepare for exam" was said: exam mode with its confirmation queued
C16_ExamEntered ==
    /\ OnDashboard /\ mode = "exam"
    /\ Len(queue) > 0 /\ queue[Len(queue)].text = D_voiceText("exam")

(***************************************************************************)
(* C17.  Classifier determinism: command handling started from the same    *)
(* mode and Credential Draft with the same final transcript gives the same *)
(* intent, the same resulting mode and draft and the same spoken text,     *)
(* whatever the listening and speaking status, the mute state and the      *)
(* transcripts handled before.                                             *)
(***************************************************************************)
\* the freshly mounted screen put in the mode and draft of the current state
Plain(scr) ==
    [Mounted(scr) EXCEPT !.mode = mode, !.username = username, !.pin = pin]

\* what command handling is seen to do
Outcome(n) ==
    [ mode |-> n.mode, username |-> n.username, pin |-> n.pin, said |-> n.said,
      handled |-> n.handled, logout |-> n.logoutTimer,
      submitted |-> Len(n.submits) ]

L_PlainOutcome(t) ==
    [Outcome(L_render(L_recognitionOnResult(Plain("login"), t, TRUE)))
        EXCEPT !.submitted = @ + Len(submits)]
D_PlainOutcome(t) ==
    [Outcome(D_render(Plain("dashboard"),
                      H_recognitionOnResult([Plain("dashboard") EXCEPT !.rec = "ending"],
                                            t, TRUE)))
        EXCEPT !.logout = @ \/ logoutTimer]

C17_SameInputSameOutcome ==
    /\ (OnLogin /\ CaptureDelivers) =>
          \A t \in LoginUtterances : Outcome(L_ByVoice(t)) = L_PlainOutcome(t)
    /\ (OnDashboard /\ CaptureDelivers) =>
          \A t \in DashboardUtterances : Outcome(D_ByVoice(t)) = D_PlainOutcome(t)

\* a command was handled while the screen was muted and speaking
C17_HandledMuted ==
    /\ OnDashboard /\ isMuted /\ isSpeaking /\ rec = "ending"
    /\ mode = "exam" /\ Len(queue) > 0
    /\ queue[Len(queue)].text = D_voiceText("exam")

(***************************************************************************)
(* C18.  Dashboard state machine: the first mode is home, and a mode other *)
(* than home is left for home only; nothing moves the dashboard from one   *)
(* non-home mode straight to another.                                      *)
(***************************************************************************)
C18_OnlyToHome ==
    [][(OnDashboard /\ screen' = "dashboard" /\ mode # "home" /\ mode' # mode)
          => mode' = "home"]_vars

\* the interactions other than voice
C18_ControlsOnlyToHome ==
    (OnDashboard /\ mode # "home") =>
        /\ D_ByBack.mode = "home"
        /\ \A key \in {"Enter", " ", "Escape", "ArrowRight", "ArrowLeft", "ArrowDown", "ArrowUp"} :
              D_render(Now, handleKeyDown(Now, key)).mode \in {mode, "home"}

(***************************************************************************)
(* C19.  No dashboard mode is terminal: from home each of the six other    *)
(* modes is entered by its voice intent and by its card; from every other  *)
(* mode the voice intents home, dashboard and back, and the back control,  *)
(* each return to home.                                                    *)
(***************************************************************************)
D_Phrase(m) ==
    CASE m = "teach" -> "Teach me"
      [] m = "exam" -> "prepare me for an exam"
      [] m = "level" -> "check my level"
      [] m = "schemes" -> "find government schemes"
      [] m = "jobs" -> "find jobs"
      [] m = "history" -> "continue where we stopped"

EnteredFromHome ==
    (OnDashboard /\ mode = "home") =>
        \A m \in DashboardModes \ {"home"} :
           /\ D_ByCard(m).mode = m
           /\ CaptureDelivers => D_ByVoice(D_Phrase(m)).mode = m

LeftFor(phrases) ==
    (OnDashboard /\ mode # "home") =>
        /\ D_ByBack.mode = "home"
        /\ CaptureDelivers => \A t \in phrases : D_ByVoice(t).mode = "home"

C19_NoTerminalMode == EnteredFromHome /\ LeftFor({"Go home", "dashboard", "back"})

\* the same without the spoken "back"
C19_HomeAndDashboardReturn == EnteredFromHome /\ LeftFor({"Go home", "dashboard"})

(***************************************************************************)
(* C20.  Login screen state machine: the first mode is welcome and the     *)
(* mode changes only from welcome to login, register or help and from      *)
(* those back to welcome; no voice command and no click moves the screen   *)
(* between two of login, register and help.                                *)
(***************************************************************************)
C20_ThroughWelcome ==
    [][(OnLogin /\ screen' = "login" /\ mode' # mode)
          => (mode = "welcome" \/ mode' = "welcome")]_vars

(***************************************************************************)
(* C21.  Logout, by voice or by the logout button, is a pseudo-transition: *)
(* it speaks the farewell and leaves the dashboard mode as it was, and the *)
(* screen is eventually navigated away from; the logout itself changes no  *)
(* mode before that.                                                       *)
(***************************************************************************)
D_ByLogoutButton == D_render(Now, [H_speak(Now, D_LogoutText) EXCEPT !.logoutTimer = TRUE])

LogoutActs(n) ==
    /\ n.said = D_LogoutText
    /\ n.queue = << [text |-> D_LogoutText, started |-> FALSE] >>
    /\ n.mode = mode
    /\ n.screen = "dashboard"
    /\ n.logoutTimer

LogoutKeepsMode ==
    OnDashboard =>
        /\ LogoutActs(D_ByLogoutButton)
        /\ CaptureDelivers => \A t \in {"Logout"} : LogoutActs(D_ByVoice(t))

LogoutPending == OnDashboard /\ logoutTimer

C21_LogoutLeaves ==
    /\ []LogoutKeepsMode
    /\ [][(LogoutPending /\ screen' = "dashboard") => logoutTimer']_vars
    /\ [][(LogoutPending /\ screen' # "dashboard") => (screen' = "left" /\ mode' = mode)]_vars
    /\ LogoutPending ~> screen = "left"

\* the screen was left from a mode other than home
C21_LeftFromTeach == screen = "left" /\ mode = "teach"

(***************************************************************************)
(* C22.  When a capture session ends while auto-restart is enabled and     *)
(* output is not active, capture start is requested again; when it ends    *)
(* while output is active or being requested, the end callback, its        *)
(* delayed restart timer included, starts no capture.                      *)
(***************************************************************************)
\* this step is the end of a capture session
SessionEnds == rec # "idle" /\ rec' = "idle" /\ screen' = screen

\* the end callback has a restart of capture pending
L_RestartSet == timer100
D_RestartSet == e2Timer \/ e3Timer

C22_NoRestartDuringOutputLogin ==
    [][(OnLogin /\ SessionEnds /\ queue # << >> /\ ~L_RestartSet) => ~L_RestartSet']_vars

C22_NoRestartDuringOutputDashboard ==
    [][(OnDashboard /\ SessionEnds /\ queue # << >> /\ ~D_RestartSet) => ~D_RestartSet']_vars

C22_RestartSetOnEnd ==
    /\ [][(OnLogin /\ SessionEnds /\ shouldRestart /\ queue = << >>) => L_RestartSet']_vars
    /\ [][(OnDashboard /\ SessionEnds /\ hasSpokenWelcome /\ ~isSpeaking /\ queue = << >>)
            => D_RestartSet']_vars

C22_RestartFollows ==
    /\ (OnLogin /\ L_RestartSet) ~> (rec # "idle" \/ screen # "login")
    /\ (OnDashboard /\ D_RestartSet /\ rec = "idle")
          ~> (rec # "idle" \/ queue # << >> \/ screen # "dashboard")

C22_EndCallback ==
    /\ C22_RestartSetOnEnd
    /\ C22_NoRestartDuringOutputLogin
    /\ C22_NoRestartDuringOutputDashboard

(***************************************************************************)
(* C23.  A transient capture error (no-speech, aborted) is not surfaced as *)
(* a failure and does not stop auto-restart: after it, with auto-restart   *)
(* enabled and no output active, capture becomes active again.             *)
(***************************************************************************)
\* the error is shown and spoken to nobody
NotSurfaced(n) == n.error = error /\ n.said = "" /\ n.queue = queue /\ n.mode = mode

C23_TransientNotSurfaced ==
    /\ (OnLogin /\ rec \in {"starting", "active"}) =>
          \A code \in TransientCodes :
             /\ NotSurfaced(L_render([L_recognitionOnError(Now, code) EXCEPT !.rec = "ending"]))
             /\ L_recognitionOnError(Now, code).shouldRestart = shouldRestart
    /\ (OnDashboard /\ rec \in {"starting", "active"}) =>
          \A code \in TransientCodes :
             NotSurfaced(D_render(Now, H_recognitionOnError([Now EXCEPT !.rec = "ending"], code)))

\* a session is ending and nothing is or is about to be spoken
SessionEndingQuiet == rec = "ending" /\ queue = << >> /\ ~isSpeaking /\ orphans = 0

ActiveAgain == rec = "active" \/ queue # << >> \/ stopSince \/ screen = "left"

C23_RestartAfterTransientLogin ==
    (OnLogin /\ SessionEndingQuiet /\ shouldRestart) ~> ActiveAgain

C23_RestartAfterTransientDashboard ==
    (OnDashboard /\ SessionEndingQuiet) ~> ActiveAgain

C23_TransientErrorRestarts ==
    /\ []C23_TransientNotSurfaced
    /\ C23_RestartAfterTransientLogin
    /\ C23_RestartAfterTransientDashboard

(***************************************************************************)
(* C24.  A capture error with a code other than no-speech and aborted      *)
(* stops capture and is followed by no automatic retry: capture stays      *)
(* inactive until an explicit startListening() or the end of a speak().    *)
(***************************************************************************)
FatalCodes == ErrorCodes \ TransientCodes

\* the login screen after the error event and the end event of the session
L_AfterError(code) ==
    CHOOSE b \in {L_render(L_recognitionOnEnd([a EXCEPT !.rec = "idle"])) :
                    a \in {L_render([L_recognitionOnError(Now, code) EXCEPT !.rec = "ending"])}} :
        TRUE

\* and after every timer the two events have set
L_AfterErrorTimers(code) ==
    CHOOSE c \in {IF b.timer100 THEN L_render(L_restart([b EXCEPT !.timer100 = FALSE])) ELSE b :
                    b \in {L_AfterError(code)}} : TRUE

D_AfterError(code) ==
    CHOOSE b \in {D_render(a, H_recognitionOnEnd([a EXCEPT !.rec = "idle"])) :
                    a \in {D_render(Now, H_recognitionOnError([Now EXCEPT !.rec = "ending"], code))}} :
        TRUE

D_AfterErrorTimers(code) ==
    CHOOSE c \in {IF b.e2Timer THEN D_render(b, H_startListening([b EXCEPT !.e2Timer = FALSE]))
                   ELSE b : b \in {D_AfterError(code)}} : TRUE

\* capture runs, nothing is spoken or about to be, no restart is pending
CapturingQuiet ==
    /\ rec = "active" /\ isListening
    /\ queue = << >> /\ ~isSpeaking /\ orphans = 0
    /\ ~timer50 /\ ~timer100 /\ ~e2Timer /\ ~e3Timer /\ ~welcomeTimer

Stopped(n) == ~n.isListening /\ n.rec = "idle"

C24_FatalErrorStopsLogin ==
    (OnLogin /\ CapturingQuiet) =>
        \A code \in FatalCodes :
           Stopped(L_AfterError(code)) /\ Stopped(L_AfterErrorTimers(code))

C24_FatalErrorStopsDashboard ==
    (OnDashboard /\ CapturingQuiet) =>
        \A code \in FatalCodes :
           Stopped(D_AfterError(code)) /\ Stopped(D_AfterErrorTimers(code))

C24_FatalErrorStops == C24_FatalErrorStopsLogin /\ C24_FatalErrorStopsDashboard

\* capture does stop with the session
C24_FatalErrorEnds ==
    /\ (OnLogin /\ CapturingQuiet) => \A code \in FatalCodes : Stopped(L_AfterError(code))
    /\ (OnDashboard /\ CapturingQuiet) => \A code \in FatalCodes : Stopped(D_AfterError(code))

(***************************************************************************)
(* C25.  startListening() called while capture is already active is a      *)
(* no-op: the capture state, the output state (a playing utterance is not  *)
(* cancelled), the interim and final transcript and the auto-restart flag  *)
(* are left as they were.                                                  *)
(***************************************************************************)
CaptureActive == rec = "active" /\ isListening

SameVoiceState(n) ==
    /\ n.rec = rec /\ n.isListening = isListening
    /\ n.queue = queue /\ n.isSpeaking = isSpeaking /\ n.orphans = orphans
    /\ n.transcript = transcript /\ n.lastResult = lastResult
    /\ n.shouldRestart = shouldRestart

C25_StartWhileActiveLogin ==
    (OnLogin /\ CaptureActive) => SameVoiceState(L_render(L_startListening(Now)))

C25_StartWhileActiveDashboard ==
    (OnDashboard /\ CaptureActive) => SameVoiceState(D_render(Now, H_startListening(Now)))

C25_StartWhileActiveNoOp == C25_StartWhileActiveLogin /\ C25_StartWhileActiveDashboard

(***************************************************************************)
(* C26.  startListening() called while capture is not active cancels any   *)
(* output in flight and forces output-active to false before it requests   *)
(* the capture start, so that no utterance is pending or playing when      *)
(* capture becomes active.                                                 *)
(***************************************************************************)
CaptureOff == rec = "idle" /\ ~isListening

OutputCancelled(n) == n.queue = << >> /\ ~n.isSpeaking /\ n.rec = "starting"

C26_StartCancelsLogin ==
    (OnLogin /\ CaptureOff) => OutputCancelled(L_startListening(Now))

C26_StartCancelsDashboard ==
    (OnDashboard /\ CaptureOff) => OutputCancelled(H_startListening(Now))

\* on the dashboard every capture session is requested by startListening()
C26_ActiveWithoutOutput ==
    [][(OnDashboard /\ rec = "starting" /\ rec' = "active") => queue' = << >>]_vars

C26_StartCancelsOutput ==
    /\ []C26_StartCancelsLogin
    /\ []C26_StartCancelsDashboard
    /\ C26_ActiveWithoutOutput

(***************************************************************************)
(* C27.  A capture start the platform rejects never propagates as a        *)
(* failure, and the listening flag is always what the platform's start and *)
(* end callbacks reported: start and stop requests do not set it, so the   *)
(* flag equals the platform's capture state in every reachable state.      *)
(***************************************************************************)
\* the flag is set while the platform captures, and only in a session that is
\* running or on its way to its end event
FlagIsPlatformState ==
    /\ rec = "active" => isListening
    /\ isListening => rec \in {"active", "stopping", "ending"}

C27_FlagIsPlatformStateLogin == OnLogin => FlagIsPlatformState
C27_FlagIsPlatformStateDashboard == OnDashboard => FlagIsPlatformState

\* a rejected start changes nothing but what the call does before it
C27_RejectionSwallowed ==
    /\ (OnLogin /\ rec # "idle") =>
          /\ L_restart(Now) = Now
          /\ ~isListening =>
                L_startListening(Now) =
                    [Now EXCEPT !.transcript = "", !.lastResult = "", !.shouldRestart = TRUE]
    /\ (OnDashboard /\ rec # "idle") =>
          /\ H_startListening(Now).rec = rec
          /\ H_startListening(Now).isListening = isListening
          /\ H_startListening(Now).screen = "dashboard"

C27_RequestsLeaveFlag ==
    /\ OnLogin =>
          /\ L_startListening(Now).isListening = isListening
          /\ L_stopListening(Now).isListening = isListening
          /\ L_restart(Now).isListening = isListening
    /\ OnDashboard =>
          /\ H_startListening(Now).isListening = isListening
          /\ H_stopListening(Now).isListening = isListening

C27_ListeningFlagReported ==
    /\ C27_RejectionSwallowed
    /\ C27_RequestsLeaveFlag
    /\ C27_FlagIsPlatformStateLogin
    /\ C27_FlagIsPlatformStateDashboard

(***************************************************************************)
(* C28.  stopListening() is idempotent: called twice in a row, or called   *)
(* while capture is not active, it leaves the state one call leaves, with  *)
(* auto-restart disabled and the capture stop requested; a failure of the  *)
(* platform's stop is swallowed.                                           *)
(***************************************************************************)
L_Stopped == L_render(L_stopListening(Now))
D_Stopped == D_render(Now, H_stopListening(Now))

L_StoppedTwice ==
    CHOOSE b \in {L_render(L_stopListening(a)) : a \in {L_Stopped}} : TRUE
D_StoppedTwice ==
    CHOOSE b \in {D_render(a, H_stopListening(a)) : a \in {D_Stopped}} : TRUE

C28_Idempotent ==
    /\ OnLogin => L_StoppedTwice = L_Stopped
    /\ OnDashboard => D_StoppedTwice = D_Stopped

StopRequested(n) == ~n.isListening /\ n.rec \notin {"starting", "active"} /\ n.screen = screen

C28_StopRequested ==
    /\ OnLogin => StopRequested(L_Stopped)
    /\ OnDashboard => StopRequested(D_Stopped)

\* nothing is left that starts capture again by itself
C28_RestartDisabledLogin ==
    OnLogin => ~L_Stopped.shouldRestart /\ (L_Stopped.timer100 => timer100)

C28_RestartDisabledDashboard ==
    (OnDashboard /\ isListening /\ queue = << >> /\ ~isSpeaking) =>
        ~D_Stopped.e2Timer /\ ~D_Stopped.e3Timer

C28_StopIdempotent ==
    /\ C28_Idempotent
    /\ C28_StopRequested
    /\ C28_RestartDisabledLogin
    /\ C28_RestartDisabledDashboard

(***************************************************************************)
(* C29.  Once a username is captured by voice, later utterances never      *)
(* change it, they only add digits to the pin; the username changes again  *)
(* only by clear, by a return to welcome or by typing.                     *)
(***************************************************************************)
\* what an utterance does to a draft that has a username
UsernameKept(t, n) ==
    \/ /\ n.username = username
       /\ \/ n.pin = pin
          \/ /\ L_parsed[t].keyword = "none" /\ L_parsed[t].numbers # ""
             /\ n.pin = SubSeq(pin \o L_parsed[t].numbers, 1,
                               Min(6, Len(pin \o L_parsed[t].numbers)))
    \/ /\ n.username = "" /\ n.pin = ""
       /\ \/ L_parsed[t].keyword = "clear" /\ n.mode = mode
          \/ L_parsed[t].keyword = "welcome" /\ n.mode = "welcome"

UtterancesKeepUsername ==
    (OnLogin /\ username # "" /\ CaptureDelivers) =>
        \A t \in LoginUtterances : \A n \in {L_ByVoice(t)} : UsernameKept(t, n)

C29_UsernameKept ==
    /\ []UtterancesKeepUsername
    /\ [][(OnLogin /\ username # "" /\ username' # username)
            => (username' = "" /\ pin' = "")]_vars

\* "hello" was said after "rahul": the username is still rahul
C29_HelloAfterRahul ==
    /\ OnLogin /\ username = "rahul"
    /\ Len(queue) > 0 /\ queue[Len(queue)].text = L_RemindText("rahul")

(***************************************************************************)
(* C30.  With a username captured, an utterance without a navigation or    *)
(* control keyword appends to the pin, in the order of the utterance, the  *)
(* digit of each digit character and of each whole word among zero..nine,  *)
(* to, too, for, fore, ate, oh (2, 2, 4, 4, 8, 0); other words add nothing. *)
(***************************************************************************)
\* the mapping as the specification states it
StatedDigit(w) ==
    CASE w = "zero" -> "0" [] w = "one" -> "1" [] w = "two" -> "2"
      [] w = "three" -> "3" [] w = "four" -> "4" [] w = "five" -> "5"
      [] w = "six" -> "6" [] w = "seven" -> "7" [] w = "eight" -> "8"
      [] w = "nine" -> "9" [] w \in {"to", "too"} -> "2"
      [] w \in {"for", "fore"} -> "4" [] w = "ate" -> "8" [] w = "oh" -> "0"
      [] OTHER -> StripNonDigits(w)

\* the last position of the word that starts at position i of s
RECURSIVE WordEnd(_, _)
WordEnd(s, i) ==
    IF i < Len(s) /\ IsWordChar(CharAt(s, i + 1)) THEN WordEnd(s, i + 1) ELSE i

\* the digits of the words of s from position i on, word by word
RECURSIVE DigitsByWord(_, _)
DigitsByWord(s, i) ==
    IF i > Len(s) THEN ""
    ELSE IF ~IsWordChar(CharAt(s, i)) THEN DigitsByWord(s, i + 1)
    ELSE StatedDigit(SubSeq(s, i, WordEnd(s, i))) \o DigitsByWord(s, WordEnd(s, i) + 1)

StatedDigits == [t \in LoginUtterances |-> DigitsByWord(L_command(t), 1)]

AppendsStatedDigits(t, n) ==
    IF StatedDigits[t] = "" THEN n.pin = pin
    ELSE /\ n.pin = SubSeq(pin \o StatedDigits[t], 1, Min(6, Len(pin \o StatedDigits[t])))
         /\ n.said = L_AddedText(StatedDigits[t], n.pin)

C30_DigitsByWord ==
    (OnLogin /\ username # "" /\ CaptureDelivers) =>
        \A t \in LoginUtterances :
           L_parsed[t].keyword = "none" =>
              \A n \in {L_ByVoice(t)} : AppendsStatedDigits(t, n)

\* "room 7 fore2 nine" and then "to too for fore ate oh" were said after "rahul"
C30_MisrecognitionsAppended ==
    /\ OnLogin /\ username = "rahul" /\ pin = "729224"
    /\ Len(queue) > 0 /\ queue[Len(queue)].text = L_AddedText("224480", "729224")

(***************************************************************************)
(* C31.  At most one submission is in flight on the login screen: once a   *)
(* valid submission has started (isProcessing), a further submit by voice  *)
(* or by the button starts no second one, so isLoggedIn is written and the *)
(* page is left at most once.                                              *)
(***************************************************************************)
SubmitWhileProcessing ==
    (OnLogin /\ isProcessing /\ CaptureDelivers) =>
        \A n \in {L_ByVoice("submit")} : n.submits = submits

C31_OneSubmissionInFlight ==
    /\ OnLogin => Len(submits) <= 1
    /\ SubmitWhileProcessing

(***************************************************************************)
(* C32.  On the dashboard the automatic re-enabling of the microphone never *)
(* cuts a spoken response off: the delayed startListening() of the          *)
(* auto-enable effect and of the after-speaking effect never runs while an  *)
(* utterance is pending or playing.                                         *)
(***************************************************************************)
OutputPending == queue # << >>

C32_AutoEnableSparesOutput ==
    [][(D_AutoEnableTimer \/ D_ReenableTimer) => ~OutputPending]_vars

(***************************************************************************)
(* C33.  On the dashboard the microphone is enabled only after the welcome *)
(* message has finished: no capture start is requested by the screen       *)
(* between the speak() of the welcome message and the end of its           *)
(* utterance, and the welcome message is requested once per mount.         *)
(***************************************************************************)
WelcomeQueued == \E i \in 1..Len(queue) : queue[i].text = D_WelcomeText

WelcomeOnce ==
    /\ [][D_WelcomeTimer => ~hasSpokenWelcome]_vars
    /\ [](OnDashboard /\ hasSpokenWelcome => ~welcomeTimer)

C33_MicAfterWelcome ==
    /\ [][(D_AutoEnableTimer \/ D_ReenableTimer) => ~WelcomeQueued]_vars
    /\ WelcomeOnce

(***************************************************************************)
(* C34.  After the login screen's voice hook is torn down, capture is      *)
(* never started again: no restart timer still pending and no later end of *)
(* an utterance requests a capture start or enables auto-restart again.    *)
(***************************************************************************)
StartRequested == rec # "starting" /\ rec' = "starting"

C34_NoCaptureAfterTeardown ==
    /\ [][Torn => ~StartRequested]_vars
    /\ [](Torn => ~shouldRestart)

\* what the cleanup does reach: a hook torn down with auto-restart off, no
\* timer pending and nothing queued for synthesis stays off
QuietTeardown ==
    [][(Torn /\ ~shouldRestart /\ ~timer50 /\ ~timer100 /\ queue = << >>)
          => (~StartRequested /\ ~shouldRestart' /\ ~timer50' /\ ~timer100' /\ queue' = << >>)]_vars

(***************************************************************************)
(* C35.  On the login screen, mode = welcome implies an empty Credential   *)
(* Draft (username and pin both empty): entering welcome clears the draft, *)
(* and no utterance changes the draft while the mode is welcome or help.   *)
(***************************************************************************)
EmptyDraft(n) == n.username = "" /\ n.pin = ""

WelcomeHasNoDraft ==
    /\ (OnLogin /\ mode = "welcome") => EmptyDraft(Now)
    /\ OnLogin => \A n \in {L_ByClick("welcome")} : n.mode = "welcome" /\ EmptyDraft(n)
    /\ (OnLogin /\ CaptureDelivers) =>
          \A n \in {L_ByVoice("go back")} : n.mode = "welcome" /\ EmptyDraft(n)

SameDraft(n) == n.username = username /\ n.pin = pin

\* in welcome and help mode no utterance is taken for a username or a pin
NoFormInputOutsideForm ==
    (OnLogin /\ mode \in {"welcome", "help"} /\ CaptureDelivers) =>
        \A t \in LoginUtterances :
           \A n \in {L_ByVoice(t)} : SameDraft(n) \/ (n.mode = "welcome" /\ EmptyDraft(n))

C35_WelcomeDraftEmpty ==
    /\ WelcomeHasNoDraft
    /\ (OnLogin /\ mode \in {"welcome", "help"} /\ CaptureDelivers) =>
          \A t \in LoginUtterances : \A n \in {L_ByVoice(t)} : SameDraft(n)

(***************************************************************************)
(* C36.  On the dashboard the selected card index is always within 0..5;   *)
(* ArrowDown and ArrowUp saturate at 5 and at 0; arrow keys, Enter and     *)
(* Space change neither the index nor the mode unless the mode is home.    *)
(***************************************************************************)
D_ByKey(key) == D_render(Now, handleKeyDown(Now, key))

KeyActs(key, n) ==
    IF mode # "home" THEN n.selectedIndex = selectedIndex /\ n.mode = mode
    ELSE /\ key = "ArrowDown" =>
              /\ n.mode = mode
              /\ n.selectedIndex = IF selectedIndex = 5 THEN 5 ELSE selectedIndex + 1
         /\ key = "ArrowUp" =>
              /\ n.mode = mode
              /\ n.selectedIndex = IF selectedIndex = 0 THEN 0 ELSE selectedIndex - 1
         /\ key \in {"Enter", " "} =>
              /\ n.selectedIndex = selectedIndex
              /\ n.mode = modes[selectedIndex + 1]

C36_IndexWithinCards ==
    OnDashboard =>
        /\ selectedIndex \in 0..5
        /\ \A key \in Keys : \A n \in {D_ByKey(key)} : KeyActs(key, n)

\* the last card was reached with ArrowDown and opened with Enter or Space
C36_LastCardOpened ==
    OnDashboard /\ selectedIndex = 5 /\ mode = "history"

(***************************************************************************)
(* C37.  On the dashboard the repeat and help intents never change the     *)
(* mode: repeat speaks the instructions of the mode that is current when   *)
(* the transcript is handled, help speaks the fixed help text, in every    *)
(* mode.                                                                   *)
(***************************************************************************)
RepeatOrHelp(t, n) ==
    /\ D_parsed[Trim(t)] = "repeat" => n.mode = mode /\ n.said = D_instructions(mode)
    /\ D_parsed[Trim(t)] = "help" => n.mode = mode /\ n.said = D_HelpText

C37_RepeatAndHelpKeepMode ==
    (OnDashboard /\ CaptureDelivers) =>
        \A t \in DashboardUtterances : \A n \in {D_ByVoice(t)} : RepeatOrHelp(t, n)

\* "exit and repeat" was said in exam mode: its instructions are queued
C37_RepeatedInExam ==
    /\ OnDashboard /\ mode = "exam"
    /\ Len(queue) > 0 /\ queue[Len(queue)].text = D_instructions("exam")

====
